---- MODULE Spec2Model ----
(***************************************************************************)
(* Model of the chess-analyzer analysis pipeline (src/chess_analyzer.py)   *)
(* and of the request handlers that drive it (src/app.py).                 *)
(*                                                                         *)
(* Three specifications share the variables:                               *)
(*   SpecScore  the score formatter and the perspective normaliser as      *)
(*              pure functions over a range of engine scores;              *)
(*   Spec       one analyze call, step by step: validation, engine         *)
(*              acquisition, the stream of engine updates, finalisation;   *)
(*   SpecConc   several request threads sharing the one analyzer.          *)
(*                                                                         *)
(* Python strings are sequences of one-character strings, so that prefix   *)
(* tests, replace() and float parsing are computed as the code does.       *)
(***************************************************************************)
EXTENDS Integers, Sequences, FiniteSets, TLC

\* ------------------------------------------------------------------ bounds
MaxCp == 130
MaxMate == 3
MaxRank == 2
MaxUpdates == 2
MaxCalls == 2

\* ------------------------------------------------------- program constants
HandlerDefaultDepth == 20
MateScore == 10000
PvStoreLimit == 10
LinePreviewLimit == 5

\* ---------------------------------------------------------------- strings
DigitChars == <<"0", "1", "2", "3", "4", "5", "6", "7", "8", "9">>

DigitChar(d) == DigitChars[d + 1]

IsDigitChar(c) == \E d \in 0..9 : DigitChars[d + 1] = c

CharDigit(c) == CHOOSE d \in 0..9 : DigitChars[d + 1] = c

RECURSIVE IntToStr(_)
IntToStr(n) == IF n < 10 THEN <<DigitChar(n)>>
               ELSE IntToStr(n \div 10) \o <<DigitChar(n % 10)>>

RECURSIVE StrToNat(_)
StrToNat(s) == IF Len(s) = 0 THEN 0
               ELSE 10 * StrToNat(SubSeq(s, 1, Len(s) - 1)) + CharDigit(s[Len(s)])

Abs(n) == IF n < 0 THEN -n ELSE n

Take(s, n) == SubSeq(s, 1, IF Len(s) < n THEN Len(s) ELSE n)

StartsWith(s, p) == Len(s) >= Len(p) /\ SubSeq(s, 1, Len(p)) = p

\* str.replace(pat, ''): every occurrence of pat is removed, left to right
RECURSIVE RemoveAll(_, _)
RemoveAll(s, pat) ==
    IF Len(s) = 0 THEN s
    ELSE IF StartsWith(s, pat) THEN RemoveAll(SubSeq(s, Len(pat) + 1, Len(s)), pat)
    ELSE <<s[1]>> \o RemoveAll(SubSeq(s, 2, Len(s)), pat)

StrNA == <<"N", "/", "A">>
StrMateIn == <<"M", "a", "t", "e", " ", "i", "n">>
StrMatedIn == <<"M", "a", "t", "e", "d", " ", "i", "n">>
StrMateInSp == StrMateIn \o <<" ">>
StrMatedInSp == StrMatedIn \o <<" ">>

\* ------------------------------------------------------------------ floats
\* A Python float that is a multiple of 0.01: sign bit and hundredths.  The
\* sign bit is kept apart from the magnitude because -0.0 is a float.
IntToFloat100(cp) == [neg |-> cp < 0, h |-> Abs(cp)]

FloatNeg(f) == [neg |-> ~f.neg, h |-> f.h]

\* pawns >= 0  (-0.0 >= 0 is true)
FloatGeqZero(f) == ~f.neg \/ f.h = 0

\* f"{x:.2f}"
Format2f(f) ==
    (IF f.neg THEN <<"-">> ELSE <<>>)
    \o IntToStr(f.h \div 100) \o <<".">>
    \o <<DigitChar((f.h % 100) \div 10), DigitChar(f.h % 10)>>

\* f"{x:+.2f}"
FormatSigned2f(f) ==
    (IF f.neg THEN <<>> ELSE <<"+">>) \o Format2f(f)

\* float(s) on strings of the shape [+-]digits.dd; anything else raises
\* ValueError, which is the result "ValueError" here.
FloatBody(s) == IF Len(s) > 0 /\ s[1] \in {"+", "-"} THEN SubSeq(s, 2, Len(s)) ELSE s

IsFloatStr(s) ==
    LET b == FloatBody(s)
    IN /\ Len(b) >= 4
       /\ b[Len(b) - 2] = "."
       /\ \A i \in 1..Len(b) : i # Len(b) - 2 => IsDigitChar(b[i])

ParseFloat(s) ==
    LET b == FloatBody(s)
    IN [neg |-> s[1] = "-",
        h |-> 100 * StrToNat(SubSeq(b, 1, Len(b) - 3))
              + StrToNat(SubSeq(b, Len(b) - 1, Len(b)))]

\* ------------------------------------------------------------------ scores
White == "white"
Black == "black"
Colors == {White, Black}

Cp(v) == [tag |-> "cp", v |-> v]
Mate(n) == [tag |-> "mate", v |-> n]

\* Score.__neg__ of the engine library
ScoreNeg(s) == [tag |-> s.tag, v |-> -s.v]

\* PovScore.white(): the engine reports relative to the side to move
PovWhite(rel, turn) == IF turn = White THEN rel ELSE ScoreNeg(rel)

\* variant: the plus sign is given to positive values only
FormatScorePlusForPositive(score) ==
    IF score.tag = "mate"
    THEN IF score.v > 0
         THEN StrMateInSp \o IntToStr(score.v)
         ELSE StrMatedInSp \o IntToStr(Abs(score.v))
    ELSE LET pawns == IntToFloat100(score.v)
             sign == IF ~pawns.neg /\ pawns.h > 0 THEN <<"+">> ELSE <<>>
         IN sign \o Format2f(pawns)

FormatScore(score) ==
    IF score.tag = "mate"
    THEN IF score.v > 0
         THEN StrMateInSp \o IntToStr(score.v)
         ELSE StrMatedInSp \o IntToStr(Abs(score.v))
    ELSE LET pawns == IntToFloat100(score.v)
             sign == IF FloatGeqZero(pawns) THEN <<"+">> ELSE <<>>
         IN sign \o Format2f(pawns)

\* variant: score(mate_score=10000) is used for mates too, which subtracts
\* the distance to mate
ScoreValueMateDistance(score) ==
    IF score.tag = "cp" THEN score.v
    ELSE IF score.v > 0 THEN MateScore - score.v ELSE -MateScore - score.v

ScoreValue(score) ==
    IF score.tag = "cp" THEN score.v
    ELSE IF score.v > 0 THEN MateScore ELSE -MateScore

\* variant: the mate test looks at the prefix "Mate" only, which "Mated in N"
\* has too
FormatDisplayScoreLoosePrefix(raw_score, is_white_turn) ==
    IF raw_score = StrNA THEN raw_score
    ELSE IF StartsWith(raw_score, <<"M", "a", "t", "e">>)
    THEN IF is_white_turn THEN raw_score
         ELSE StrMatedInSp \o RemoveAll(raw_score, StrMateInSp)
    ELSE IF IsFloatStr(raw_score)
    THEN LET value == ParseFloat(raw_score)
             display_value == IF is_white_turn THEN value ELSE FloatNeg(value)
         IN FormatSigned2f(display_value)
    ELSE raw_score

FormatDisplayScore(raw_score, is_white_turn) ==
    IF raw_score = StrNA THEN raw_score
    ELSE IF StartsWith(raw_score, StrMateIn)
    THEN IF is_white_turn THEN raw_score
         ELSE StrMatedInSp \o RemoveAll(raw_score, StrMateInSp)
    ELSE IF StartsWith(raw_score, StrMatedIn)
    THEN IF is_white_turn THEN raw_score
         ELSE StrMateInSp \o RemoveAll(raw_score, StrMatedInSp)
    ELSE IF IsFloatStr(raw_score)
    THEN LET value == ParseFloat(raw_score)
             display_value == IF is_white_turn THEN value ELSE FloatNeg(value)
         IN FormatSigned2f(display_value)
    ELSE raw_score

DisplayScoreValue(raw_score_value, is_white_turn) ==
    IF is_white_turn THEN raw_score_value ELSE -raw_score_value

\* ------------------------------------------------------- optional values
\* A missing dict key, a None argument or an absent info field is the empty
\* sequence; a present value v is <<v>>.
None == <<>>
Some(v) == <<v>>

\* ------------------------------------------------- board and move library
\* Abstraction of the chess library's board: the side to move and a position
\* id.  A move is a small integer; which moves are legal depends on the
\* position, and pushing a move changes the position and the side to move.
Moves == 1..3
Other(c) == IF c = White THEN Black ELSE White

Legal(b, m) == m # 3 /\ ~(b.pos = 1 /\ m = 2)

Push(b, m) == [turn |-> Other(b.turn), pos |-> (b.pos + m) % 4]

\* Move.uci()
Uci(m) == <<"u", DigitChar(m)>>

\* Board.san(move): depends on the position the move is played in
San(b, m) == <<"s", DigitChar(b.pos), DigitChar(m)>>

\* _pv_to_san: conversion on a copy of the board, stopping at the first ply
\* whose conversion raises
RECURSIVE PvToSanFrom(_, _)
PvToSanFrom(temp_board, pv) ==
    IF Len(pv) = 0 THEN <<>>
    ELSE IF ~Legal(temp_board, pv[1]) THEN <<>>
    ELSE <<San(temp_board, pv[1])>> \o PvToSanFrom(Push(temp_board, pv[1]), Tail(pv))

\* variant: every ply is converted in the starting position, none stops
\* the conversion
PvToSanEveryPly(b, pv) == [i \in 1..Len(pv) |-> San(b, pv[i])]

PvToSan(b, pv) == PvToSanFrom(b, pv)

RECURSIVE PushConverted(_, _)
PushConverted(b, pv) ==
    IF Len(pv) = 0 THEN b
    ELSE IF ~Legal(b, pv[1]) THEN b
    ELSE PushConverted(Push(b, pv[1]), Tail(pv))

\* variant: the plies are pushed on the caller's board
BoardAfterPvToSanInPlace(b, pv) == PushConverted(b, pv)

\* the caller's board after _pv_to_san returned: the plies were pushed on
\* temp_board = board.copy()
BoardAfterPvToSan(b, pv) == b

RECURSIVE MapUci(_)
MapUci(pv) == IF Len(pv) = 0 THEN <<>> ELSE <<Uci(pv[1])>> \o MapUci(Tail(pv))

\* ' '.join(words)
RECURSIVE JoinSp(_)
JoinSp(words) ==
    IF Len(words) = 0 THEN <<>>
    ELSE IF Len(words) = 1 THEN words[1]
    ELSE words[1] \o <<" ">> \o JoinSp(Tail(words))

\* ------------------------------------------------------------ FEN inputs
\* A FEN either fails to parse (chess.Board raises ValueError), parses to a
\* position that is not valid, or parses to a valid position.
FenInputs ==
    {[shape |-> "malformed", turn |-> White, pos |-> 0]}
    \cup {[shape |-> sh, turn |-> c, pos |-> 0] : sh \in {"illegal", "legal"}, c \in Colors}

MsgValid == "Valid FEN"
MsgInvalidPosition == "Invalid board position"
MsgInvalidFen == "Invalid FEN"

ValidateFen(fen) ==
    IF fen.shape = "malformed" THEN [ok |-> FALSE, msg |-> MsgInvalidFen]
    ELSE IF fen.shape = "legal" THEN [ok |-> TRUE, msg |-> MsgValid]
    ELSE [ok |-> FALSE, msg |-> MsgInvalidPosition]

BoardOf(fen) == [turn |-> fen.turn, pos |-> fen.pos]

NoBoard == [turn |-> White, pos |-> 0]

\* ---------------------------------------------------------- engine infos
LongPv == [i \in 1..(PvStoreLimit + 1) |-> 1]

PvInputs == {<<1, 2>>, <<3, 1>>, LongPv}

\* engine scores, relative to the side to move
RelScoreInputs == {Cp(50), Mate(-1)}

DepthInputs == {5, 8}

Ranks == 1..MaxRank

Infos ==
    [multipv : {None} \cup {Some(r) : r \in Ranks},
     score : {None} \cup {Some(s) : s \in RelScoreInputs},
     pv : {None} \cup {Some(p) : p \in PvInputs},
     depth : {None} \cup {Some(d) : d \in DepthInputs}]

NoInfo == [multipv |-> None, score |-> None, pv |-> None, depth |-> None]

\* ------------------------------------------------------------ aggregator
EmptyDict == [score |-> None, score_value |-> None, pv |-> None,
              pv_san |-> None, depth |-> None]

\* while len(analysis_results) <= pv_index: analysis_results.append({})
Extend(results, n) ==
    IF Len(results) >= n THEN results
    ELSE results \o [i \in 1..(n - Len(results)) |-> EmptyDict]

\* variant: the update replaces the whole record, a field it lacks is lost
MergeFieldsReplaceRecord(old, b, inf) ==
    [score |-> IF inf.score # None
               THEN Some(FormatScore(PovWhite(inf.score[1], b.turn)))
               ELSE None,
     score_value |-> IF inf.score # None
                     THEN Some(ScoreValue(PovWhite(inf.score[1], b.turn)))
                     ELSE None,
     pv |-> IF inf.pv # None
            THEN Some(MapUci(Take(inf.pv[1], PvStoreLimit)))
            ELSE None,
     pv_san |-> IF inf.pv # None
                THEN Some(PvToSan(b, Take(inf.pv[1], PvStoreLimit)))
                ELSE None,
     depth |-> IF inf.depth # None THEN Some(inf.depth[1]) ELSE None]

\* variant: replace-if-deeper, a shallower depth does not overwrite
MergeFieldsKeepDeepest(old, b, inf) ==
    [score |-> IF inf.score # None
               THEN Some(FormatScore(PovWhite(inf.score[1], b.turn)))
               ELSE old.score,
     score_value |-> IF inf.score # None
                     THEN Some(ScoreValue(PovWhite(inf.score[1], b.turn)))
                     ELSE old.score_value,
     pv |-> IF inf.pv # None
            THEN Some(MapUci(Take(inf.pv[1], PvStoreLimit)))
            ELSE old.pv,
     pv_san |-> IF inf.pv # None
                THEN Some(PvToSan(b, Take(inf.pv[1], PvStoreLimit)))
                ELSE old.pv_san,
     depth |-> IF inf.depth # None /\ (old.depth = None \/ old.depth[1] <= inf.depth[1])
               THEN Some(inf.depth[1])
               ELSE old.depth]

\* variant: the comparable value is written only when the rank has none yet
MergeFieldsStaleValue(old, b, inf) ==
    [score |-> IF inf.score # None
               THEN Some(FormatScore(PovWhite(inf.score[1], b.turn)))
               ELSE old.score,
     score_value |-> IF inf.score # None /\ old.score_value = None
                     THEN Some(ScoreValue(PovWhite(inf.score[1], b.turn)))
                     ELSE old.score_value,
     pv |-> IF inf.pv # None
            THEN Some(MapUci(Take(inf.pv[1], PvStoreLimit)))
            ELSE old.pv,
     pv_san |-> IF inf.pv # None
                THEN Some(PvToSan(b, Take(inf.pv[1], PvStoreLimit)))
                ELSE old.pv_san,
     depth |-> IF inf.depth # None THEN Some(inf.depth[1]) ELSE old.depth]

MergeFields(old, b, inf) ==
    [score |-> IF inf.score # None
               THEN Some(FormatScore(PovWhite(inf.score[1], b.turn)))
               ELSE old.score,
     score_value |-> IF inf.score # None
                     THEN Some(ScoreValue(PovWhite(inf.score[1], b.turn)))
                     ELSE old.score_value,
     pv |-> IF inf.pv # None
            THEN Some(MapUci(Take(inf.pv[1], PvStoreLimit)))
            ELSE old.pv,
     pv_san |-> IF inf.pv # None
                THEN Some(PvToSan(b, Take(inf.pv[1], PvStoreLimit)))
                ELSE old.pv_san,
     depth |-> IF inf.depth # None THEN Some(inf.depth[1]) ELSE old.depth]

\* variant: the dicts appended while extending the list are one shared object,
\* so the update written to rank k shows in every dict appended with it
MergeInfoAliased(results, b, inf) ==
    IF inf.multipv = None THEN results
    ELSE LET k == inf.multipv[1]
             ext == IF Len(results) >= k THEN results
                    ELSE results \o [i \in 1..(k - Len(results)) |->
                                       MergeFields(EmptyDict, b, inf)]
         IN [ext EXCEPT ![k] = MergeFields(ext[k], b, inf)]

\* variant: an update without a rank index counts for rank 1
MergeInfoDefaultRank(results, b, inf) ==
    LET k == IF inf.multipv = None THEN 1 ELSE inf.multipv[1]
        ext == Extend(results, k)
    IN [ext EXCEPT ![k] = MergeFields(ext[k], b, inf)]

MergeInfo(results, b, inf) ==
    IF inf.multipv = None THEN results
    ELSE LET k == inf.multipv[1]
             ext == Extend(results, k)
         IN [ext EXCEPT ![k] = MergeFields(ext[k], b, inf)]

\* the entry best_moves gets for the accumulator at index i (rank i)
RankedMove(i, result, is_white_turn) ==
    LET move == result.pv[1][1]
        pv_san == result.pv_san[1]
        move_san == IF Len(pv_san) > 0 THEN pv_san[1] ELSE move
        raw_score_value == IF result.score_value # None THEN result.score_value[1] ELSE 0
        raw_score == IF result.score # None THEN result.score[1] ELSE StrNA
    IN [rank |-> i,
        move |-> move,
        move_san |-> move_san,
        score |-> FormatDisplayScore(raw_score, is_white_turn),
        score_value |-> DisplayScoreValue(raw_score_value, is_white_turn),
        raw_score_value |-> raw_score_value,
        line |-> JoinSp(Take(pv_san, LinePreviewLimit)),
        full_line |-> pv_san]

\* variant: an entry needs a score as well as a PV
IncludedWithScore(result) ==
    result # EmptyDict /\ result.pv # None /\ result.score # None

\* variant: an entry needs a PV whose first ply converted
IncludedNonEmptySan(result) ==
    result # EmptyDict /\ result.pv # None /\ Len(result.pv_san[1]) > 0

\* if result and 'pv' in result
Included(result) == result # EmptyDict /\ result.pv # None

RECURSIVE BestMovesFrom(_, _, _)
BestMovesFrom(results, i, is_white_turn) ==
    IF i > Len(results) THEN <<>>
    ELSE (IF Included(results[i])
          THEN <<RankedMove(i, results[i], is_white_turn)>>
          ELSE <<>>)
         \o BestMovesFrom(results, i + 1, is_white_turn)

\* variant: the entries are numbered by their place in the output
BestMovesRenumbered(results, b) ==
    LET bm == BestMovesFrom(results, 1, b.turn = White)
    IN [j \in 1..Len(bm) |-> [bm[j] EXCEPT !.rank = j]]

BestMoves(results, b) == BestMovesFrom(results, 1, b.turn = White)

\* ------------------------------------------------------- position context
\* board.piece_map() is modelled by the sequence of the pieces on the board,
\* each with its colour and type (the code looks at nothing else of it).
PieceTypes == {"pawn", "knight", "bishop", "rook", "queen", "king"}

Piece(c, ty) == [color |-> c, type |-> ty]

Repeat(x, n) == [i \in 1..n |-> x]

\* the pieces of one side, given how many it has of each type
SidePieces(c, k) ==
    Repeat(Piece(c, "rook"), k.rook) \o Repeat(Piece(c, "knight"), k.knight)
    \o Repeat(Piece(c, "bishop"), k.bishop) \o Repeat(Piece(c, "queen"), k.queen)
    \o <<Piece(c, "king")>> \o Repeat(Piece(c, "pawn"), k.pawn)

SideCounts ==
    [pawn : {0, 4, 8}, knight : {0, 2}, bishop : {0, 2}, rook : {0, 2}, queen : {0, 1}]

StartCounts == [pawn |-> 8, knight |-> 2, bishop |-> 2, rook |-> 2, queen |-> 1]

\* dict.get(k, default) and d[k] = v on dicts with string keys
DictGet(d, k, default) == IF k \in DOMAIN d THEN d[k] ELSE default

DictPut(d, k, v) == [x \in DOMAIN d \cup {k} |-> IF x = k THEN v ELSE d[x]]

EmptyCounts == [x \in {} |-> 0]

\* piece_values.get(piece.piece_type, 0)
PieceValue(ty) ==
    CASE ty = "pawn" -> 1
      [] ty = "knight" -> 3
      [] ty = "bishop" -> 3
      [] ty = "rook" -> 5
      [] ty = "queen" -> 9
      [] OTHER -> 0

\* piece_names.get(piece.piece_type, 'kings')
PieceName(ty) ==
    CASE ty = "pawn" -> "pawns"
      [] ty = "knight" -> "knights"
      [] ty = "bishop" -> "bishops"
      [] ty = "rook" -> "rooks"
      [] ty = "queen" -> "queens"
      [] OTHER -> "kings"

\* the loop of _calculate_material_balance over the piece map
RECURSIVE MaterialLoop(_, _)
MaterialLoop(pieces, acc) ==
    IF Len(pieces) = 0 THEN acc
    ELSE LET piece == pieces[1]
             value == PieceValue(piece.type)
             name == PieceName(piece.type)
             side == piece.color
         IN MaterialLoop(Tail(pieces),
               [acc EXCEPT ![side] = @ + value,
                           !.piece_counts[side] = DictPut(@, name, DictGet(@, name, 0) + 1)])

\* variant: the difference is taken Black minus White
MaterialBalanceBlackMinusWhite(pieces) ==
    LET acc == MaterialLoop(pieces, [white |-> 0, black |-> 0,
                                     piece_counts |-> [white |-> EmptyCounts,
                                                       black |-> EmptyCounts]])
    IN [white |-> acc.white, black |-> acc.black,
        balance |-> acc.black - acc.white,
        piece_counts |-> acc.piece_counts]

MaterialBalance(pieces) ==
    LET acc == MaterialLoop(pieces, [white |-> 0, black |-> 0,
                                     piece_counts |-> [white |-> EmptyCounts,
                                                       black |-> EmptyCounts]])
    IN [white |-> acc.white, black |-> acc.black,
        balance |-> acc.white - acc.black,
        piece_counts |-> acc.piece_counts]

\* variant: the thresholds are inclusive
PhaseInclusive(piece_count) ==
    IF piece_count >= 24 THEN "opening"
    ELSE IF piece_count >= 12 THEN "middlegame"
    ELSE "endgame"

\* _get_position_context: the game phase from the number of pieces
Phase(piece_count) ==
    IF piece_count > 24 THEN "opening"
    ELSE IF piece_count > 12 THEN "middlegame"
    ELSE "endgame"

\* ------------------------------------------------------ explanation renderer
\* The rendered text is the sequence of its lines ("\n".join(lines)); a line
\* is the key of the text table entry it was taken from, the locale of the
\* table and, for the lines about a move, the rank of the move.
Langs == {"en", "pt"}

Line(key, lang) == [key |-> key, lang |-> lang, rank |-> 0]

MoveLine(key, lang, rank) == [key |-> key, lang |-> lang, rank |-> rank]

BandKeys == {"forced_mate", "getting_mated", "decisive_advantage", "clear_advantage",
             "slight_edge", "losing", "worse", "opponent_edge", "equal"}

\* variant: the thresholds are inclusive
BandInclusive(move) ==
    IF StartsWith(move.score, StrMateIn) THEN "forced_mate"
    ELSE IF StartsWith(move.score, StrMatedIn) THEN "getting_mated"
    ELSE IF move.score_value >= 300 THEN "decisive_advantage"
    ELSE IF move.score_value >= 100 THEN "clear_advantage"
    ELSE IF move.score_value >= 30 THEN "slight_edge"
    ELSE IF move.score_value <= -300 THEN "losing"
    ELSE IF move.score_value <= -100 THEN "worse"
    ELSE IF move.score_value <= -30 THEN "opponent_edge"
    ELSE "equal"

\* the if/elif chain that explains the evaluation of a move
Band(move) ==
    IF StartsWith(move.score, StrMateIn) THEN "forced_mate"
    ELSE IF StartsWith(move.score, StrMatedIn) THEN "getting_mated"
    ELSE IF move.score_value > 300 THEN "decisive_advantage"
    ELSE IF move.score_value > 100 THEN "clear_advantage"
    ELSE IF move.score_value > 30 THEN "slight_edge"
    ELSE IF move.score_value < -300 THEN "losing"
    ELSE IF move.score_value < -100 THEN "worse"
    ELSE IF move.score_value < -30 THEN "opponent_edge"
    ELSE "equal"

RankLabel(rank) ==
    IF rank = 1 THEN "best_move"
    ELSE IF rank = 2 THEN "second_best"
    ELSE IF rank = 3 THEN "third_best"
    ELSE "#rank"

\* the lines for one move: header, evaluation band, continuation
MoveLines(move, lang) ==
    LET n == Len(move.full_line)
    IN <<MoveLine(RankLabel(move.rank), lang, move.rank),
         MoveLine(Band(move), lang, move.rank)>>
       \o (IF n >= 2
           THEN <<MoveLine("why_sequence", lang, move.rank),
                  MoveLine("after_move", lang, move.rank)>>
                \o (IF n >= 4 THEN <<MoveLine("game_continues", lang, move.rank)>> ELSE <<>>)
                \o (IF n >= 5 THEN <<MoveLine("further_moves", lang, move.rank)>> ELSE <<>>)
           ELSE <<>>)

RECURSIVE AllMoveLines(_, _)
AllMoveLines(moves, lang) ==
    IF Len(moves) = 0 THEN <<>>
    ELSE MoveLines(moves[1], lang) \o AllMoveLines(Tail(moves), lang)

\* assessment, material and check lines
TemplateHead(context, lang) ==
    <<Line("position_assessment", lang), Line("turn_to_move", lang)>>
    \o <<IF context.balance > 0 THEN Line("material_advantage_white", lang)
         ELSE IF context.balance < 0 THEN Line("material_advantage_black", lang)
         ELSE Line("material_equal", lang)>>
    \o (IF context.is_check THEN <<Line("in_check", lang)>> ELSE <<>>)

\* move analysis, strategic considerations, castling note and API tip
TemplateBody(best_moves, context, lang) ==
    <<Line("", lang)>>
    \o (IF Len(best_moves) > 0
        THEN <<Line("analysis_title", lang)>> \o AllMoveLines(Take(best_moves, 3), lang)
        ELSE <<>>)
    \o <<Line("", lang), Line("strategic_title", lang)>>
    \o <<IF context.phase = "opening" THEN Line("opening_advice", lang)
         ELSE IF context.phase = "middlegame" THEN Line("middlegame_advice", lang)
         ELSE Line("endgame_advice", lang)>>
    \o (IF /\ context.phase \in {"opening", "middlegame"}
           /\ \/ context.can_castle_kingside_white \/ context.can_castle_queenside_white
              \/ context.can_castle_kingside_black \/ context.can_castle_queenside_black
        THEN <<Line("can_castle", lang)>>
        ELSE <<>>)
    \o <<Line("", lang), Line("api_tip", lang)>>

\* variant: the terminal lines are appended without returning
TemplateLinesNoReturn(best_moves, context, lang) ==
    TemplateHead(context, lang)
    \o (IF context.is_checkmate THEN <<Line("checkmate", lang)>> ELSE <<>>)
    \o (IF context.is_stalemate THEN <<Line("stalemate", lang)>> ELSE <<>>)
    \o TemplateBody(best_moves, context, lang)

\* _generate_template_explanation
TemplateLines(best_moves, context, lang) ==
    IF context.is_checkmate
    THEN TemplateHead(context, lang) \o <<Line("checkmate", lang)>>
    ELSE IF context.is_stalemate
    THEN TemplateHead(context, lang) \o <<Line("stalemate", lang)>>
    ELSE TemplateHead(context, lang) \o TemplateBody(best_moves, context, lang)

\* variant: a failure of the language-model call is not caught
GenerateExplanationUncaught(client, llm, best_moves, context, lang) ==
    IF client /\ Len(best_moves) > 0
    THEN IF llm = "ok"
         THEN [kind |-> "return", llm_called |-> TRUE, text |-> <<Line("llm_content", lang)>>]
         ELSE [kind |-> "raise", llm_called |-> TRUE, text |-> <<>>]
    ELSE [kind |-> "return", llm_called |-> FALSE,
          text |-> TemplateLines(best_moves, context, lang)]

\* variant: a configured client is called whatever best_moves holds
GenerateExplanationClientOnly(client, llm, best_moves, context, lang) ==
    IF client
    THEN IF llm = "ok"
         THEN [kind |-> "return", llm_called |-> TRUE, text |-> <<Line("llm_content", lang)>>]
         ELSE [kind |-> "return", llm_called |-> TRUE,
               text |-> TemplateLines(best_moves, context, lang)
                        \o <<Line("", lang), Line("llm_note", lang)>>]
    ELSE [kind |-> "return", llm_called |-> FALSE,
          text |-> TemplateLines(best_moves, context, lang)]

\* _generate_explanation with _generate_llm_explanation: `llm` is how the
\* call to the language model ends if it is made
GenerateExplanation(client, llm, best_moves, context, lang) ==
    IF client /\ Len(best_moves) > 0
    THEN IF llm = "ok"
         THEN [kind |-> "return", llm_called |-> TRUE, text |-> <<Line("llm_content", lang)>>]
         ELSE [kind |-> "return", llm_called |-> TRUE,
               text |-> TemplateLines(best_moves, context, lang)
                        \o <<Line("", lang), Line("llm_note", lang)>>]
    ELSE [kind |-> "return", llm_called |-> FALSE,
          text |-> TemplateLines(best_moves, context, lang)]

\* --------------------------------------------------------- image recognizer
\* The text of the vision collaborator's reply is a sequence of segments in
\* text order.  A segment may carry the "FEN:" prefix, a piece placement
\* (none, eight ranks one of which does not sum to 8, ranks summing to 8 that
\* the chess library still rejects, a placement that parses but is not a
\* legal position, a legal one) and what follows the placement: a turn field
\* w or b with well-formed further fields, a malformed turn field x, or
\* nothing.
PlacementKinds == {"badsum", "sum8bad", "illegal", "legal"}

TurnFields == {"w", "b", "x", "absent"}

FenText(placement, turn) == [placement |-> placement, turn |-> turn]

Segments ==
    {[prefix |-> p, placement |-> "none", turn |-> "absent"] : p \in BOOLEAN}
    \cup [prefix : BOOLEAN, placement : PlacementKinds, turn : TurnFields]

SegmentSeqs ==
    {<<>>} \cup {<<a>> : a \in Segments} \cup {<<a, b>> : a \in Segments, b \in Segments}

\* what the collaborator's call can give: an exception, or a text with or
\* without the marker CANNOT_RECOGNIZE in it
VisionReplies ==
    {[kind |-> "raise", cannot |-> FALSE, segs |-> <<>>]}
    \cup [kind : {"text"}, cannot : BOOLEAN, segs : SegmentSeqs]

\* _validate_fen: chess.Board(fen) parses; the library defaults the fields
\* after the placement when they are absent
ChessParses(f) == f.placement \in {"illegal", "legal"} /\ f.turn \in {"w", "b", "absent"}

\* _clean_fen: the first part with a '/' is the placement, the fields after
\* it are kept when well-formed and defaulted otherwise
CleanFen(f) ==
    IF f.placement = "none" THEN f
    ELSE FenText(f.placement, IF f.turn \in {"w", "b"} THEN f.turn ELSE "w")

\* re.search: the index of the first segment that matches, 0 if none does
FirstMatch(matching) ==
    IF matching = {} THEN 0
    ELSE CHOOSE i \in matching : \A j \in matching : i <= j

HasPrefix(seg) == seg.prefix

\* the six-field pattern of method 2
FullPatternMatches(seg) == seg.placement # "none" /\ seg.turn \in {"w", "b"}

\* the eight-rank pattern of method 3
PiecePatternMatches(seg) == seg.placement # "none"

RanksSumToEight(placement) == placement \in {"sum8bad", "illegal", "legal"}

\* _extract_fen_from_response
ExtractFenFromResponse(segs) ==
    LET m1 == FirstMatch({i \in 1..Len(segs) : HasPrefix(segs[i])})
        cleaned == CleanFen(FenText(segs[m1].placement, segs[m1].turn))
        m2 == FirstMatch({i \in 1..Len(segs) : FullPatternMatches(segs[i])})
        m3 == FirstMatch({i \in 1..Len(segs) : PiecePatternMatches(segs[i])})
    IN IF m1 # 0 /\ ChessParses(cleaned) THEN Some(cleaned)
       ELSE IF m2 # 0 THEN Some(FenText(segs[m2].placement, segs[m2].turn))
       ELSE IF m3 # 0 /\ RanksSumToEight(segs[m3].placement)
       THEN Some(FenText(segs[m3].placement, "w"))
       ELSE None

\* variant: what the extraction gives is returned without parsing it
RecognizeWithOpenaiUnvalidated(reply) ==
    IF reply.kind = "raise" THEN None
    ELSE IF reply.cannot THEN None
    ELSE ExtractFenFromResponse(reply.segs)

\* _recognize_with_openai, from the collaborator's reply on
RecognizeWithOpenai(reply) ==
    IF reply.kind = "raise" THEN None
    ELSE IF reply.cannot THEN None
    ELSE LET fen == ExtractFenFromResponse(reply.segs)
         IN IF fen # None /\ ChessParses(fen[1]) THEN fen ELSE None

\* the recognized text as the analyzer's input
FenInputOf(f) ==
    [shape |-> f.placement, turn |-> IF f.turn = "b" THEN Black ELSE White, pos |-> 0]

\* ---------------------------------------------------------- depth settings
MemoryInputs == {512, 999, 1000, 3999, 4000, 7999, 8000, 16000}

\* get_optimal_settings: the tier chosen from the environment
GetOptimalSettings(cloud, memory_mb) ==
    IF cloud
    THEN [hash |-> 16, threads |-> 1, max_depth |-> 20, default_depth |-> 16,
          cloud_mode |-> TRUE]
    ELSE IF memory_mb >= 8000
    THEN [hash |-> 256, threads |-> 4, max_depth |-> 30, default_depth |-> 22,
          cloud_mode |-> FALSE]
    ELSE IF memory_mb >= 4000
    THEN [hash |-> 128, threads |-> 2, max_depth |-> 25, default_depth |-> 20,
          cloud_mode |-> FALSE]
    ELSE IF memory_mb >= 1000
    THEN [hash |-> 64, threads |-> 1, max_depth |-> 22, default_depth |-> 18,
          cloud_mode |-> FALSE]
    ELSE [hash |-> 16, threads |-> 1, max_depth |-> 20, default_depth |-> 16,
          cloud_mode |-> FALSE]

\* the values OPTIMAL_SETTINGS can have after module load
SettingsInputs == {GetOptimalSettings(c, m) : c \in BOOLEAN, m \in MemoryInputs}

CloudSettings == GetOptimalSettings(TRUE, 512)

\* variant: the requested depth is used as given
EffectiveDepthUncapped(depth_arg, s) ==
    IF depth_arg = None THEN s.default_depth ELSE depth_arg[1]

\* analyze: the default when no depth is given, else the request capped
EffectiveDepth(depth_arg, s) ==
    IF depth_arg = None THEN s.default_depth
    ELSE IF depth_arg[1] < s.max_depth THEN depth_arg[1] ELSE s.max_depth

\* ------------------------------------------------------------------ state
VARIABLES
    fmt,                \* SpecScore: the score being formatted and its renderings
    engine_path,        \* ChessAnalyzer.engine_path is set (an engine binary was found)
    engine,             \* ChessAnalyzer.engine: None, or the handle of a started engine
    started,            \* handles of the engine processes started so far
    configured,         \* handles that were configured with Hash and Threads
    pc,                 \* per thread: position in the call it is serving
    req,                \* per thread: the call being served
    calls,              \* per thread: calls served so far
    handle,             \* per thread: the local `engine` returned by _get_engine
    board,              \* per thread: the local `board`
    analysis_results,   \* per thread: the local list of per-rank accumulators
    info,               \* per thread: the engine update handled last
    nupdates,           \* per thread: updates handled in this call
    best_moves,         \* per thread: the local `best_moves`
    received,           \* per thread: the <<rank, field>> pairs the engine sent in this call
    ret,                \* per thread: how the last call ended
    depth,              \* per thread: the local `depth` of analyze
    search,             \* per thread: the depth limit given to engine.analysis
    settings,           \* OPTIMAL_SETTINGS
    resp,               \* per thread: the response the handler in app.py gave
    tmp_path,           \* per thread: the handler's local `tmp_path`
    files,              \* the temporary image files on disk
    vision,             \* per thread: the vision collaborator's reply being processed
    image_fen,          \* per thread: the handler's local `fen` after recognition
    recognizer_client,  \* image_recognizer.openai_client is set
    ctx,                \* SpecContext: a piece map and the context extracted from it
    expl                \* SpecExplain: the explanation renderer's inputs and output

vars == <<fmt, engine_path, engine, started, configured, pc, req, calls, handle,
          board, analysis_results, info, nupdates, best_moves, received, ret,
          depth, search, settings,
          resp, tmp_path, files, vision, image_fen, recognizer_client, ctx, expl>>

pureVars == <<fmt, ctx, expl>>
handlerVars == <<resp, tmp_path, files, vision, image_fen, recognizer_client>>
analyzerVars == <<engine_path, engine, started, configured>>
threadVars == <<pc, req, calls, handle, board, analysis_results, info, nupdates,
                best_moves, received, ret, depth, search>>

Threads == DOMAIN pc

NoHandle == 0

NoReq == [op |-> "none", fen |-> [shape |-> "malformed", turn |-> White, pos |-> 0],
          depth |-> None]

NoRet == [kind |-> "none", exc |-> "", msg |-> "", value |-> None]

Returned(v) == [kind |-> "return", exc |-> "", msg |-> "", value |-> Some(v)]

Raised(e, m) == [kind |-> "raise", exc |-> e, msg |-> m, value |-> None]

NoResp == [code |-> 0, body |-> "", engine_available |-> FALSE]

NoVision == [kind |-> "none", cannot |-> FALSE, segs |-> <<>>]

NoCtx == [stage |-> "off"]

NoExpl == [stage |-> "off"]

MsgNoEngine == "Stockfish not found"
MsgEngine == "engine error"

\* ------------------------------------------------- SpecScore: pure functions
ScoreInputs ==
    {Cp(c) : c \in (-MaxCp)..MaxCp}
    \cup {Mate(n) : n \in (-MaxMate)..MaxMate}
    \cup {Mate(12), Mate(-12)}

NoFmt == [stage |-> "off", score |-> Cp(0), raw |-> None, raw_value |-> None,
          shown |-> [c \in Colors |-> None]]

\* analyze, lines 249-252: the formatter applied to a White-relative score
FormatStep ==
    /\ fmt.stage = "input"
    /\ fmt' = [fmt EXCEPT !.stage = "formatted",
                          !.raw = Some(FormatScore(fmt.score)),
                          !.raw_value = Some(ScoreValue(fmt.score))]
    /\ UNCHANGED <<ctx, expl, settings, handlerVars, analyzerVars, threadVars>>

\* analyze, lines 270-277: the normaliser applied with side c to move
NormalizeStep(c) ==
    /\ fmt.stage = "formatted"
    /\ fmt.shown[c] = None
    /\ fmt' = [fmt EXCEPT !.shown[c] =
                 Some([score |-> FormatDisplayScore(fmt.raw[1], c = White),
                       score_value |-> DisplayScoreValue(fmt.raw_value[1], c = White)])]
    /\ UNCHANGED <<ctx, expl, settings, handlerVars, analyzerVars, threadVars>>

\* ---------------------------------------------- SpecContext: pure functions
\* _get_position_context applied to a board with the given pieces
ContextStep ==
    /\ ctx.stage = "input"
    /\ LET pieces == SidePieces(White, ctx.white) \o SidePieces(Black, ctx.black)
       IN ctx' = [stage |-> "extracted", white |-> ctx.white, black |-> ctx.black,
                  material_balance |-> MaterialBalance(pieces),
                  phase |-> Phase(Len(pieces))]
    /\ UNCHANGED <<fmt, expl, settings, handlerVars, analyzerVars, threadVars>>

InitThreads(T) ==
    /\ pc = [t \in T |-> "idle"]
    /\ req = [t \in T |-> NoReq]
    /\ calls = [t \in T |-> 0]
    /\ handle = [t \in T |-> NoHandle]
    /\ board = [t \in T |-> NoBoard]
    /\ analysis_results = [t \in T |-> <<>>]
    /\ info = [t \in T |-> NoInfo]
    /\ nupdates = [t \in T |-> 0]
    /\ best_moves = [t \in T |-> <<>>]
    /\ received = [t \in T |-> {}]
    /\ ret = [t \in T |-> NoRet]
    /\ depth = [t \in T |-> None]
    /\ search = [t \in T |-> None]
    /\ resp = [t \in T |-> NoResp]
    /\ tmp_path = [t \in T |-> None]
    /\ files = {}
    /\ vision = [t \in T |-> NoVision]
    /\ image_fen = [t \in T |-> None]

InitAnalyzer ==
    /\ engine_path \in BOOLEAN
    /\ engine = NoHandle
    /\ started = {}
    /\ configured = {}

InitScore ==
    /\ fmt \in [stage : {"input"}, score : ScoreInputs, raw : {None},
                raw_value : {None}, shown : {[c \in Colors |-> None]}]
    /\ ctx = NoCtx
    /\ expl = NoExpl
    /\ InitThreads({})
    /\ recognizer_client = FALSE
    /\ settings = CloudSettings
    /\ engine_path = FALSE
    /\ engine = NoHandle
    /\ started = {}
    /\ configured = {}

\* the white-relative scores at and around the thresholds of the bands
BandScores ==
    {Cp(v) : v \in {-301, -300, -299, -101, -100, -99, -31, -30, -29, 0,
                    29, 30, 31, 99, 100, 101, 299, 300, 301}}
    \cup {Mate(2), Mate(-2)}

\* the fields of a best_moves entry that the renderer reads, computed as
\* analyze computes them from a white-relative score and a SAN line
TemplateMove(rank, score, is_white_turn, full_line) ==
    [rank |-> rank,
     move_san |-> IF Len(full_line) > 0 THEN full_line[1] ELSE Uci(1),
     score |-> IF score = None THEN StrNA
               ELSE FormatDisplayScore(FormatScore(score[1]), is_white_turn),
     score_value |-> IF score = None THEN 0
                     ELSE DisplayScoreValue(ScoreValue(score[1]), is_white_turn),
     full_line |-> full_line]

SanLine(n) == Take(PvToSan([turn |-> White, pos |-> 0], LongPv), n)

BestMovesInputs ==
    {<<>>}
    \cup {<<TemplateMove(1, Some(s), TRUE, SanLine(2))>> : s \in BandScores}
    \cup {<<TemplateMove(1, Some(s), FALSE, SanLine(1))>> : s \in {Mate(2), Mate(-2), Cp(300)}}
    \cup {<<TemplateMove(1, None, TRUE, SanLine(0))>>}
    \cup {<<TemplateMove(1, Some(Cp(301)), TRUE, SanLine(7)),
            TemplateMove(2, Some(Cp(100)), TRUE, SanLine(4)),
            TemplateMove(3, Some(Cp(-31)), TRUE, SanLine(1)),
            TemplateMove(4, Some(Cp(-301)), TRUE, SanLine(2))>>}
    \cup {<<TemplateMove(2, Some(Mate(-2)), TRUE, SanLine(5)),
            TemplateMove(4, Some(Cp(30)), TRUE, SanLine(2))>>}

CastlingInputs ==
    {[kw |-> FALSE, qw |-> FALSE, kb |-> FALSE, qb |-> FALSE],
     [kw |-> TRUE, qw |-> FALSE, kb |-> FALSE, qb |-> FALSE],
     [kw |-> TRUE, qw |-> TRUE, kb |-> TRUE, qb |-> TRUE]}

\* the context entries the renderer reads; checkmate implies check and
\* stalemate excludes it, as on a chess board
ContextInputs ==
    {[is_check |-> kind \in {"check", "checkmate"},
      is_checkmate |-> kind = "checkmate",
      is_stalemate |-> kind = "stalemate",
      phase |-> phase,
      balance |-> balance,
      can_castle_kingside_white |-> c.kw,
      can_castle_queenside_white |-> c.qw,
      can_castle_kingside_black |-> c.kb,
      can_castle_queenside_black |-> c.qb] :
        kind \in {"normal", "check", "checkmate", "stalemate"},
        phase \in {"opening", "middlegame", "endgame"},
        balance \in {-2, 0, 3},
        c \in CastlingInputs}

\* _generate_template_explanation applied to the inputs
TemplateStep ==
    /\ expl.stage = "input"
    /\ expl.template = None
    /\ expl' = [expl EXCEPT !.template =
                    Some(TemplateLines(expl.best_moves, expl.context, expl.lang))]
    /\ UNCHANGED <<fmt, ctx, settings, handlerVars, analyzerVars, threadVars>>

\* the explanation step of analyze: _generate_explanation, whose result
\* analyze puts in the dict it returns
ExplainStep(llm) ==
    /\ expl.stage = "input"
    /\ expl.explanation = None
    /\ LET e == GenerateExplanation(expl.openai_client, llm, expl.best_moves,
                                    expl.context, expl.lang)
       IN expl' = [expl EXCEPT !.explanation = Some(e),
                               !.llm = IF e.llm_called THEN llm ELSE "not_called"]
    /\ UNCHANGED <<fmt, ctx, settings, handlerVars, analyzerVars, threadVars>>

InitExplain ==
    /\ expl \in [stage : {"input"}, openai_client : BOOLEAN, lang : Langs,
                  context : ContextInputs, best_moves : BestMovesInputs,
                  template : {None}, explanation : {None}, llm : {"not_called"}]
    /\ fmt = NoFmt
    /\ ctx = NoCtx
    /\ InitThreads({})
    /\ recognizer_client = FALSE
    /\ settings = CloudSettings
    /\ engine_path = FALSE
    /\ engine = NoHandle
    /\ started = {}
    /\ configured = {}

NextExplain == TemplateStep \/ \E llm \in {"ok", "raise"} : ExplainStep(llm)

SpecExplain == InitExplain /\ [][NextExplain]_vars

InitContext ==
    /\ ctx \in [stage : {"input"}, white : SideCounts, black : SideCounts]
    /\ fmt = NoFmt
    /\ expl = NoExpl
    /\ InitThreads({})
    /\ recognizer_client = FALSE
    /\ settings = CloudSettings
    /\ engine_path = FALSE
    /\ engine = NoHandle
    /\ started = {}
    /\ configured = {}

NextContext == ContextStep

SpecContext == InitContext /\ [][NextContext]_vars

NextScore == FormatStep \/ \E c \in Colors : NormalizeStep(c)

SpecScore == InitScore /\ [][NextScore]_vars

\* --------------------------------------------------------------- requests
\* app.py calls analyzer.analyze (analyze_position) and analyzer.check_engine
\* (health_check) on the one process-wide analyzer.
Requests ==
    {[op |-> "analyze", fen |-> f, depth |-> Some(HandlerDefaultDepth)] : f \in FenInputs}
    \cup {[op |-> "check_engine", fen |-> NoReq.fen, depth |-> None]}

Call(t, r, limit) ==
    /\ pc[t] = "idle"
    /\ calls[t] < limit
    /\ req' = [req EXCEPT ![t] = r]
    /\ pc' = [pc EXCEPT ![t] = IF r.op = "analyze" THEN "validate" ELSE "get_engine"]
    /\ handle' = [handle EXCEPT ![t] = NoHandle]
    /\ board' = [board EXCEPT ![t] = NoBoard]
    /\ analysis_results' = [analysis_results EXCEPT ![t] = <<>>]
    /\ info' = [info EXCEPT ![t] = NoInfo]
    /\ nupdates' = [nupdates EXCEPT ![t] = 0]
    /\ best_moves' = [best_moves EXCEPT ![t] = <<>>]
    /\ received' = [received EXCEPT ![t] = {}]
    /\ ret' = [ret EXCEPT ![t] = NoRet]
    /\ resp' = [resp EXCEPT ![t] = NoResp]
    /\ depth' = [depth EXCEPT ![t] = None]
    /\ search' = [search EXCEPT ![t] = None]
    /\ UNCHANGED <<pureVars, settings, tmp_path, files, vision, image_fen, recognizer_client,
                   analyzerVars, calls>>

\* a call ends by raising: check_engine catches every exception and returns
\* False, analyze lets it propagate
Fail(t, e, m) ==
    /\ pc' = [pc EXCEPT ![t] = "done"]
    /\ ret' = [ret EXCEPT ![t] = IF req[t].op = "check_engine"
                                 THEN Returned(FALSE)
                                 ELSE Raised(e, m)]

\* variant: the board is built and the engine fetched without looking at the
\* outcome of the validation
ValidateUnchecked(t) ==
    /\ pc[t] = "validate"
    /\ board' = [board EXCEPT ![t] = BoardOf(req[t].fen)]
    /\ depth' = [depth EXCEPT ![t] = Some(EffectiveDepth(req[t].depth, settings))]
    /\ pc' = [pc EXCEPT ![t] = "get_engine"]
    /\ UNCHANGED <<pureVars, settings, search,
                   handlerVars, analyzerVars, req, calls, handle, analysis_results,
                   info, nupdates, best_moves, received, ret>>

\* analyze: validate the FEN, then choose the depth and build the board
Validate(t) ==
    /\ pc[t] = "validate"
    /\ LET v == ValidateFen(req[t].fen)
       IN IF ~v.ok
          THEN /\ Fail(t, "ValueError", v.msg)
               /\ UNCHANGED <<board, depth>>
          ELSE /\ depth' = [depth EXCEPT ![t] = Some(EffectiveDepth(req[t].depth, settings))]
               /\ board' = [board EXCEPT ![t] = BoardOf(req[t].fen)]
               /\ pc' = [pc EXCEPT ![t] = "get_engine"]
               /\ UNCHANGED ret
    /\ UNCHANGED <<pureVars, settings, search,
                   handlerVars, analyzerVars, req, calls, handle, analysis_results,
                   info, nupdates, best_moves, received>>

\* _get_engine: the test `self.engine is None` and the test of engine_path
GetEngineTest(t) ==
    /\ pc[t] = "get_engine"
    /\ IF engine # NoHandle
       THEN /\ pc' = [pc EXCEPT ![t] = "return_engine"]
            /\ UNCHANGED ret
       ELSE IF ~engine_path
       THEN Fail(t, "RuntimeError", MsgNoEngine)
       ELSE /\ pc' = [pc EXCEPT ![t] = "popen"]
            /\ UNCHANGED ret
    /\ UNCHANGED <<pureVars, settings, depth, search,
                   handlerVars, analyzerVars, req, calls, handle, board, analysis_results,
                   info, nupdates, best_moves, received>>

NewHandle == Cardinality(started) + 1

\* _get_engine: self.engine = SimpleEngine.popen_uci(path); starting the
\* process may fail
Popen(t, ok) ==
    /\ pc[t] = "popen"
    /\ IF ok
       THEN /\ engine' = NewHandle
            /\ started' = started \cup {NewHandle}
            /\ pc' = [pc EXCEPT ![t] = "configure"]
            /\ UNCHANGED ret
       ELSE /\ Fail(t, "EngineError", MsgEngine)
            /\ UNCHANGED <<engine, started>>
    /\ UNCHANGED <<pureVars, settings, depth, search,
                   handlerVars, engine_path, configured, req, calls, handle, board,
                   analysis_results, info, nupdates, best_moves, received>>

\* _get_engine: self.engine.configure({...}); the engine may reject it
Configure(t, ok) ==
    /\ pc[t] = "configure"
    /\ IF ok
       THEN /\ configured' = configured \cup {engine}
            /\ pc' = [pc EXCEPT ![t] = "return_engine"]
            /\ UNCHANGED ret
       ELSE /\ Fail(t, "EngineError", MsgEngine)
            /\ UNCHANGED configured
    /\ UNCHANGED <<pureVars, settings, depth, search,
                   handlerVars, engine_path, engine, started, req, calls, handle, board,
                   analysis_results, info, nupdates, best_moves, received>>

\* _get_engine: return self.engine
ReturnEngine(t) ==
    /\ pc[t] = "return_engine"
    /\ handle' = [handle EXCEPT ![t] = engine]
    /\ IF req[t].op = "check_engine"
       THEN /\ pc' = [pc EXCEPT ![t] = "done"]
            /\ ret' = [ret EXCEPT ![t] = Returned(TRUE)]
       ELSE /\ pc' = [pc EXCEPT ![t] = "analysis"]
            /\ UNCHANGED ret
    /\ UNCHANGED <<pureVars, settings, depth, search,
                   handlerVars, analyzerVars, req, calls, board, analysis_results,
                   info, nupdates, best_moves, received>>

\* analyze: `with engine.analysis(board, Limit(depth=depth), ...) as analysis`
\* is entered
AnalysisOpen(t) ==
    /\ pc[t] = "analysis"
    /\ pc' = [pc EXCEPT ![t] = "stream"]
    /\ search' = [search EXCEPT ![t] = depth[t]]
    /\ UNCHANGED <<pureVars, settings, depth,
                   handlerVars, analyzerVars, req, calls, handle, board, analysis_results,
                   info, nupdates, best_moves, received, ret>>

\* what an update tells about a rank: the fields it carries for it
FieldsSent(inf) ==
    IF inf.multipv = None THEN {}
    ELSE {<<inf.multipv[1], f>> : f \in {g \in {"score", "pv", "depth"} : inf[g] # None}}

\* analyze: one iteration of `for info in analysis`
Update(t, inf) ==
    /\ pc[t] = "stream"
    /\ nupdates[t] < MaxUpdates
    /\ info' = [info EXCEPT ![t] = inf]
    /\ nupdates' = [nupdates EXCEPT ![t] = @ + 1]
    /\ analysis_results' = [analysis_results EXCEPT ![t] = MergeInfo(@, board[t], inf)]
    /\ received' = [received EXCEPT ![t] = @ \cup FieldsSent(inf)]
    /\ board' = [board EXCEPT ![t] =
                    IF inf.multipv # None /\ inf.pv # None
                    THEN BoardAfterPvToSan(@, Take(inf.pv[1], PvStoreLimit))
                    ELSE @]
    /\ UNCHANGED <<pureVars, settings, depth, search,
                   handlerVars, analyzerVars, pc, req, calls, handle, best_moves, ret>>

\* analyze: the stream ends and the with-block is left
StreamEnd(t) ==
    /\ pc[t] = "stream"
    /\ pc' = [pc EXCEPT ![t] = "finalize"]
    /\ UNCHANGED <<pureVars, settings, depth, search,
                   handlerVars, analyzerVars, req, calls, handle, board, analysis_results,
                   info, nupdates, best_moves, received, ret>>

\* analyze: build best_moves and return the result record
Finalize(t) ==
    /\ pc[t] = "finalize"
    /\ best_moves' = [best_moves EXCEPT ![t] = BestMoves(analysis_results[t], board[t])]
    /\ pc' = [pc EXCEPT ![t] = "done"]
    /\ ret' = [ret EXCEPT ![t] =
                 Returned([turn |-> board[t].turn,
                           best_moves |-> BestMoves(analysis_results[t], board[t]),
                           analysis_depth |-> depth[t][1]])]
    /\ UNCHANGED <<pureVars, settings, depth, search,
                   handlerVars, analyzerVars, req, calls, handle, board, analysis_results,
                   info, nupdates, received>>

\* variant: the status is "healthy" whenever check_engine returned at all
HealthResponseAnyResult(engine_status) ==
    [code |-> 200,
     body |-> IF engine_status \in BOOLEAN THEN "healthy" ELSE "degraded",
     engine_available |-> engine_status]

\* health_check: the status follows check_engine's result
HealthResponse(engine_status) ==
    [code |-> 200,
     body |-> IF engine_status THEN "healthy" ELSE "degraded",
     engine_available |-> engine_status]

\* analyze_position: the result, or the exception turned into an error
AnalyzeResponse(r) ==
    IF r.kind = "return"
    THEN [code |-> 200, body |-> "result", engine_available |-> FALSE]
    ELSE [code |-> 400, body |-> "Analysis error", engine_available |-> FALSE]

\* the handler in app.py turns the outcome into its response
Respond(t) ==
    /\ pc[t] = "done"
    /\ pc' = [pc EXCEPT ![t] = "idle"]
    /\ calls' = [calls EXCEPT ![t] = @ + 1]
    /\ resp' = [resp EXCEPT ![t] = IF req[t].op = "check_engine"
                                   THEN HealthResponse(ret[t].value[1])
                                   ELSE AnalyzeResponse(ret[t])]
    /\ UNCHANGED <<pureVars, settings, depth, search, tmp_path, files, vision, image_fen, recognizer_client, analyzerVars, req, handle, board, analysis_results,
                   info, nupdates, best_moves, received, ret>>

\* ----------------------------------------------------------- Spec: one thread
Init ==
    /\ fmt = NoFmt
    /\ ctx = NoCtx
    /\ expl = NoExpl
    /\ InitAnalyzer
    /\ InitThreads({1})
    /\ recognizer_client = FALSE
    /\ settings = CloudSettings

Next ==
    \E t \in Threads :
        \/ \E r \in Requests : Call(t, r, 1)
        \/ Validate(t)
        \/ GetEngineTest(t)
        \/ \E ok \in BOOLEAN : Popen(t, ok)
        \/ \E ok \in BOOLEAN : Configure(t, ok)
        \/ ReturnEngine(t)
        \/ AnalysisOpen(t)
        \/ \E inf \in Infos : Update(t, inf)
        \/ StreamEnd(t)
        \/ Finalize(t)
        \/ Respond(t)

Spec == Init /\ [][Next]_vars

\* ------------------------------------------- SpecConc: threads sharing the analyzer
\* The host serves requests on concurrent threads (app.run), all through the
\* module-level analyzer.  The engine updates are drawn from a small set here.
ConcThreads == {1, 2}

ConcInfos ==
    {[multipv |-> Some(1), score |-> Some(Cp(50)), pv |-> Some(<<1, 2>>), depth |-> Some(5)],
     [multipv |-> None, score |-> None, pv |-> None, depth |-> Some(8)]}

ConcRequests ==
    {[op |-> "analyze", fen |-> f, depth |-> Some(HandlerDefaultDepth)] :
        f \in {x \in FenInputs : x.turn = White /\ x.shape # "illegal"}}
    \cup {[op |-> "check_engine", fen |-> NoReq.fen, depth |-> None]}

InitConc ==
    /\ fmt = NoFmt
    /\ ctx = NoCtx
    /\ expl = NoExpl
    /\ InitAnalyzer
    /\ InitThreads(ConcThreads)
    /\ recognizer_client = FALSE
    /\ settings = CloudSettings

NextConc ==
    \E t \in Threads :
        \/ \E r \in ConcRequests : Call(t, r, MaxCalls)
        \/ Validate(t)
        \/ GetEngineTest(t)
        \/ \E ok \in BOOLEAN : Popen(t, ok)
        \/ \E ok \in BOOLEAN : Configure(t, ok)
        \/ ReturnEngine(t)
        \/ AnalysisOpen(t)
        \/ \E inf \in ConcInfos : Update(t, inf)
        \/ StreamEnd(t)
        \/ Finalize(t)
        \/ Respond(t)

SpecConc == InitConc /\ [][NextConc]_vars

\* ------------------------------------- SpecAgg: one thread, scores and PVs
\* Updates that always carry a rank, with mate scores of both signs, a
\* centipawn score as large as the mate sentinel, and PVs of several
\* lengths: one that stops converting at its second ply (whose third would
\* convert), one that fails at once, one longer than the preview and one
\* longer than the store.
AggPvInputs == {<<1, 2, 1>>, <<3, 1>>, <<2, 1, 1, 1, 1, 1, 1>>, LongPv}

AggScoreInputs == {Cp(50), Cp(MateScore), Mate(2), Mate(-1)}

AggInfos ==
    [multipv : {Some(r) : r \in Ranks},
     score : {None} \cup {Some(x) : x \in AggScoreInputs},
     pv : {None} \cup {Some(p) : p \in AggPvInputs},
     depth : {None}]

AggRequests ==
    {[op |-> "analyze", fen |-> f, depth |-> Some(HandlerDefaultDepth)] :
        f \in {x \in FenInputs : x.shape # "illegal"}}

InitAgg ==
    /\ fmt = NoFmt
    /\ ctx = NoCtx
    /\ expl = NoExpl
    /\ InitAnalyzer
    /\ InitThreads({1})
    /\ recognizer_client = FALSE
    /\ settings = CloudSettings

NextAgg ==
    \E t \in Threads :
        \/ \E r \in AggRequests : Call(t, r, 1)
        \/ Validate(t)
        \/ GetEngineTest(t)
        \/ \E ok \in BOOLEAN : Popen(t, ok)
        \/ \E ok \in BOOLEAN : Configure(t, ok)
        \/ ReturnEngine(t)
        \/ AnalysisOpen(t)
        \/ \E inf \in AggInfos : Update(t, inf)
        \/ StreamEnd(t)
        \/ Finalize(t)
        \/ Respond(t)

SpecAgg == InitAgg /\ [][NextAgg]_vars

\* --------------------------------------- SpecDepth: one thread, depth chosen
\* analyze called with and without a depth, under every settings tier.
DepthArgs == {None} \cup {Some(d) : d \in {0, 16, 20, 21, 22, 23, 25, 26, 30, 31}}

DepthRequests ==
    {[op |-> "analyze", fen |-> f, depth |-> d] :
        f \in {x \in FenInputs : x.turn = White /\ x.shape # "illegal"}, d \in DepthArgs}

InitDepth ==
    /\ fmt = NoFmt
    /\ ctx = NoCtx
    /\ expl = NoExpl
    /\ InitAnalyzer
    /\ settings \in SettingsInputs
    /\ recognizer_client = FALSE
    /\ InitThreads({1})

NextDepth ==
    \E t \in Threads :
        \/ \E r \in DepthRequests : Call(t, r, 1)
        \/ Validate(t)
        \/ GetEngineTest(t)
        \/ \E ok \in BOOLEAN : Popen(t, ok)
        \/ \E ok \in BOOLEAN : Configure(t, ok)
        \/ ReturnEngine(t)
        \/ AnalysisOpen(t)
        \/ \E inf \in ConcInfos : Update(t, inf)
        \/ StreamEnd(t)
        \/ Finalize(t)
        \/ Respond(t)

SpecDepth == InitDepth /\ [][NextDepth]_vars

\* ------------------------------------------------- SpecImage: image requests
\* analyze_position with an image and recognize_position: decode, write a
\* temporary file, recognize, unlink, then answer or analyze.
ImageOps == {"analyze_image", "recognize_image"}

MsgImageError == "Image processing error"
MsgCouldNotRecognize == "Could not recognize chess position from image"
MsgCouldNotRecognizeManual ==
    "Could not recognize chess position from image. Try using Manual Entry instead."

ErrorResponse(msg) == [code |-> 400, body |-> msg, engine_available |-> FALSE]

CouldNotRecognizeResponse(op) ==
    ErrorResponse(IF op = "analyze_image" THEN MsgCouldNotRecognize
                  ELSE MsgCouldNotRecognizeManual)

RecognizedResponse == [code |-> 200, body |-> "success", engine_available |-> FALSE]

\* the handler returns its response
HandlerReturns(t, r) ==
    /\ resp' = [resp EXCEPT ![t] = r]
    /\ pc' = [pc EXCEPT ![t] = "idle"]
    /\ calls' = [calls EXCEPT ![t] = @ + 1]

ImageCall(t, op, limit) ==
    /\ pc[t] = "idle"
    /\ calls[t] < limit
    /\ req' = [req EXCEPT ![t] = [op |-> op, fen |-> NoReq.fen,
                                  depth |-> Some(HandlerDefaultDepth)]]
    /\ pc' = [pc EXCEPT ![t] = "decode"]
    /\ handle' = [handle EXCEPT ![t] = NoHandle]
    /\ board' = [board EXCEPT ![t] = NoBoard]
    /\ analysis_results' = [analysis_results EXCEPT ![t] = <<>>]
    /\ info' = [info EXCEPT ![t] = NoInfo]
    /\ nupdates' = [nupdates EXCEPT ![t] = 0]
    /\ best_moves' = [best_moves EXCEPT ![t] = <<>>]
    /\ received' = [received EXCEPT ![t] = {}]
    /\ ret' = [ret EXCEPT ![t] = NoRet]
    /\ resp' = [resp EXCEPT ![t] = NoResp]
    /\ tmp_path' = [tmp_path EXCEPT ![t] = None]
    /\ image_fen' = [image_fen EXCEPT ![t] = None]
    /\ depth' = [depth EXCEPT ![t] = None]
    /\ search' = [search EXCEPT ![t] = None]
    /\ UNCHANGED <<pureVars, settings, files, vision, recognizer_client, analyzerVars, calls>>

\* base64.b64decode(image_data) raises on malformed data
Decode(t, ok) ==
    /\ pc[t] = "decode"
    /\ IF ok
       THEN /\ pc' = [pc EXCEPT ![t] = "tmp_write"]
            /\ UNCHANGED <<resp, calls>>
       ELSE HandlerReturns(t, ErrorResponse(MsgImageError))
    /\ UNCHANGED <<pureVars, settings, depth, search, tmp_path, files, vision, image_fen, recognizer_client,
                   analyzerVars, req, handle, board, analysis_results, info, nupdates,
                   best_moves, received, ret>>

\* the file the request creates: one per call of a thread
NewFile(t) == <<t, calls[t]>>

\* NamedTemporaryFile(delete=False), tmp.write, tmp_path = tmp.name: the
\* file exists once created; tmp_path is assigned after a successful write
TmpWrite(t, ok) ==
    /\ pc[t] = "tmp_write"
    /\ files' = files \cup {NewFile(t)}
    /\ IF ok
       THEN /\ tmp_path' = [tmp_path EXCEPT ![t] = Some(NewFile(t))]
            /\ pc' = [pc EXCEPT ![t] = "recognize"]
            /\ UNCHANGED <<resp, calls>>
       ELSE /\ HandlerReturns(t, ErrorResponse(MsgImageError))
            /\ UNCHANGED tmp_path
    /\ UNCHANGED <<pureVars, settings, depth, search, vision, image_fen, recognizer_client, analyzerVars, req, handle,
                   board, analysis_results, info, nupdates, best_moves, received, ret>>

\* recognize: without a client it raises; with one, the collaborator is
\* called and gives its reply
RecognizeCall(t, reply) ==
    /\ pc[t] = "recognize"
    /\ IF recognizer_client
       THEN /\ vision' = [vision EXCEPT ![t] = reply]
            /\ pc' = [pc EXCEPT ![t] = "vision_reply"]
       ELSE /\ pc' = [pc EXCEPT ![t] = "unlink_raise"]
            /\ UNCHANGED vision
    /\ UNCHANGED <<pureVars, settings, depth, search, resp, tmp_path, files, image_fen, recognizer_client,
                   analyzerVars, req, calls, handle, board, analysis_results, info,
                   nupdates, best_moves, received, ret>>

\* _recognize_with_openai returns and the handler assigns `fen`
RecognizeReturn(t) ==
    /\ pc[t] = "vision_reply"
    /\ image_fen' = [image_fen EXCEPT ![t] = RecognizeWithOpenai(vision[t])]
    /\ vision' = [vision EXCEPT ![t] = NoVision]
    /\ pc' = [pc EXCEPT ![t] = "unlink"]
    /\ UNCHANGED <<pureVars, settings, depth, search, resp, tmp_path, files, recognizer_client, analyzerVars, req,
                   calls, handle, board, analysis_results, info, nupdates, best_moves,
                   received, ret>>

\* finally: os.unlink(tmp_path); an exception of recognize then reaches the
\* outer handler
Unlink(t) ==
    /\ pc[t] \in {"unlink", "unlink_raise"}
    /\ files' = files \ {tmp_path[t][1]}
    /\ IF pc[t] = "unlink"
       THEN /\ pc' = [pc EXCEPT ![t] = "recognized"]
            /\ UNCHANGED <<resp, calls>>
       ELSE HandlerReturns(t, ErrorResponse(MsgImageError))
    /\ UNCHANGED <<pureVars, settings, depth, search, tmp_path, vision, image_fen, recognizer_client, analyzerVars,
                   req, handle, board, analysis_results, info, nupdates, best_moves,
                   received, ret>>

\* `if not fen`: the error; otherwise recognize_position answers with the
\* FEN and analyze_position goes on to analyzer.analyze(fen)
AfterRecognize(t) ==
    /\ pc[t] = "recognized"
    /\ IF image_fen[t] = None
       THEN /\ HandlerReturns(t, CouldNotRecognizeResponse(req[t].op))
            /\ UNCHANGED req
       ELSE IF req[t].op = "recognize_image"
       THEN /\ HandlerReturns(t, RecognizedResponse)
            /\ UNCHANGED req
       ELSE /\ req' = [req EXCEPT ![t].fen = FenInputOf(image_fen[t][1])]
            /\ pc' = [pc EXCEPT ![t] = "validate"]
            /\ UNCHANGED <<resp, calls>>
    /\ UNCHANGED <<pureVars, settings, depth, search, tmp_path, files, vision, image_fen, recognizer_client,
                   analyzerVars, handle, board, analysis_results, info, nupdates,
                   best_moves, received, ret>>

InitImage ==
    /\ fmt = NoFmt
    /\ ctx = NoCtx
    /\ expl = NoExpl
    /\ InitAnalyzer
    /\ recognizer_client \in BOOLEAN
    /\ settings = CloudSettings
    /\ InitThreads({1})

NextImage ==
    \E t \in Threads :
        \/ \E op \in ImageOps : ImageCall(t, op, 1)
        \/ \E ok \in BOOLEAN : Decode(t, ok)
        \/ \E ok \in BOOLEAN : TmpWrite(t, ok)
        \/ \E reply \in VisionReplies : RecognizeCall(t, reply)
        \/ RecognizeReturn(t)
        \/ Unlink(t)
        \/ AfterRecognize(t)
        \/ Validate(t)
        \/ GetEngineTest(t)
        \/ \E ok \in BOOLEAN : Popen(t, ok)
        \/ \E ok \in BOOLEAN : Configure(t, ok)
        \/ ReturnEngine(t)
        \/ AnalysisOpen(t)
        \/ \E inf \in ConcInfos : Update(t, inf)
        \/ StreamEnd(t)
        \/ Finalize(t)
        \/ Respond(t)

SpecImage == InitImage /\ [][NextImage]_vars

\* ================================================================== claims
AccOf(results, r) == IF r <= Len(results) THEN results[r] ELSE EmptyDict

Acc(t, r) == AccOf(analysis_results[t], r)

UpdateStep(t) == pc[t] = "stream" /\ nupdates'[t] = nupdates[t] + 1

AnalyzeReturned(t) ==
    pc[t] = "done" /\ req[t].op = "analyze" /\ ret[t].kind = "return"

RanksIn(bm) == {bm[i].rank : i \in 1..Len(bm)}

EntryOf(bm, r) == bm[CHOOSE i \in 1..Len(bm) : bm[i].rank = r]

Str050 == <<"+", "0", ".", "5", "0">>

\* C1: an update for rank r overwrites, in r's accumulator, exactly the
\* fields it carries - score, PV (its first PvStoreLimit plies) and depth -
\* with the values it carries, leaves r's other fields as they were, and
\* leaves every other rank's accumulator as it was; so at the end of the
\* stream each field holds what the latest update carrying it said.
C1_LastWriteWinsPerField ==
    [][\A t \in Threads :
         (UpdateStep(t) /\ info'[t].multipv # None) =>
            LET inf == info'[t]
                r == inf.multipv[1]
                old == Acc(t, r)
                new == AccOf(analysis_results'[t], r)
                w == IF inf.score # None
                     THEN PovWhite(inf.score[1], board[t].turn)
                     ELSE Cp(0)
            IN /\ Len(analysis_results'[t]) >= r
               /\ new.score = IF inf.score # None THEN Some(FormatScore(w)) ELSE old.score
               /\ new.score_value = IF inf.score # None THEN Some(ScoreValue(w))
                                    ELSE old.score_value
               /\ new.pv = IF inf.pv # None
                           THEN Some(MapUci(Take(inf.pv[1], PvStoreLimit)))
                           ELSE old.pv
               /\ new.depth = IF inf.depth # None THEN inf.depth ELSE old.depth
               /\ \A q \in 1..Len(analysis_results'[t]) :
                     q # r => analysis_results'[t][q] = Acc(t, q)]_vars

\* rank 1 got {depth 5, score +50}, then {depth 8, pv} without a score: the
\* finalized entry has the score +0.50 and the new PV
C1_Witness ==
    \E t \in Threads :
        /\ AnalyzeReturned(t)
        /\ board[t].turn = White
        /\ nupdates[t] = 2
        /\ info[t] = [multipv |-> Some(1), score |-> None, pv |-> Some(<<1, 2>>),
                      depth |-> Some(8)]
        /\ Acc(t, 1).score = Some(Str050)
        /\ Acc(t, 1).depth = Some(8)
        /\ Len(best_moves[t]) = 1
        /\ best_moves[t][1].score = Str050
        /\ best_moves[t][1].move = Uci(1)

\* C2: for a White-relative score, the comparable value shown with White to
\* move is the formatter's value and the one shown with Black to move is its
\* negation; with Black to move "Mate in N" is shown as "Mated in N" and
\* "Mated in N" as "Mate in N", and with White to move they are unchanged.
C2_PerspectiveNegation ==
    (fmt.stage = "formatted" /\ fmt.shown[White] # None /\ fmt.shown[Black] # None) =>
        LET w == fmt.shown[White][1]
            b == fmt.shown[Black][1]
            n == IntToStr(Abs(fmt.score.v))
        IN /\ w.score_value = fmt.raw_value[1]
           /\ b.score_value = -w.score_value
           /\ (fmt.score.tag = "mate" /\ fmt.score.v > 0) =>
                 (w.score = StrMateInSp \o n /\ b.score = StrMatedInSp \o n)
           /\ (fmt.score.tag = "mate" /\ fmt.score.v <= 0) =>
                 (w.score = StrMatedInSp \o n /\ b.score = StrMateInSp \o n)

C2_Witness ==
    /\ fmt.stage = "formatted"
    /\ fmt.score = Mate(-2)
    /\ fmt.shown[White] # None
    /\ fmt.shown[Black] # None
    /\ fmt.shown[Black][1].score = StrMateInSp \o <<"2">>
    /\ fmt.shown[Black][1].score_value = MateScore

\* C3 as stated: every entry of best_moves is for a rank that received both
\* a score and a PV.
C3_OnlyScoreAndPv ==
    \A t \in Threads :
        AnalyzeReturned(t) =>
            \A r \in RanksIn(best_moves[t]) :
                <<r, "score">> \in received[t] /\ <<r, "pv">> \in received[t]

\* C3 amended: best_moves has an entry for exactly the ranks that received a
\* PV; a rank that received a PV and no score has the entry with the string
\* "N/A" and the values 0.
C3_EntryForEveryPv ==
    \A t \in Threads :
        AnalyzeReturned(t) =>
            /\ RanksIn(best_moves[t]) = {r \in Ranks : <<r, "pv">> \in received[t]}
            /\ \A r \in RanksIn(best_moves[t]) :
                  <<r, "score">> \notin received[t] =>
                      /\ EntryOf(best_moves[t], r).score = StrNA
                      /\ EntryOf(best_moves[t], r).score_value = 0
                      /\ EntryOf(best_moves[t], r).raw_score_value = 0

C3_Witness ==
    \E t \in Threads :
        /\ AnalyzeReturned(t)
        /\ <<1, "pv">> \in received[t]
        /\ <<1, "score">> \notin received[t]
        /\ 1 \in RanksIn(best_moves[t])
        /\ EntryOf(best_moves[t], 1).score = StrNA

\* C4: a rank that received no PV has no entry in best_moves, whether or not
\* it received scores and depths, and an analysis that got as far as the
\* engine stream returns its result rather than raising.
C4_NoPvNoEntry ==
    \A t \in Threads :
        /\ AnalyzeReturned(t) =>
              \A r \in Ranks : <<r, "pv">> \notin received[t] => r \notin RanksIn(best_moves[t])
        /\ (pc[t] = "done" /\ req[t].op = "analyze" /\ handle[t] # NoHandle) =>
              ret[t].kind = "return"

\* rank 1 received a score and a depth and no PV, rank 2 a PV: only rank 2
\* is in the result
C4_Witness ==
    \E t \in Threads :
        /\ AnalyzeReturned(t)
        /\ <<1, "score">> \in received[t]
        /\ <<1, "depth">> \in received[t]
        /\ <<1, "pv">> \notin received[t]
        /\ RanksIn(best_moves[t]) = {2}

\* the latest PV of rank r is one whose first ply does not convert
FirstPlyFails(t, r) ==
    /\ Acc(t, r).pv # None
    /\ \E m \in Moves : Acc(t, r).pv[1][1] = Uci(m) /\ ~Legal(board[t], m)

\* C5 as stated: a rank whose latest PV fails conversion on its first ply has
\* no entry in best_moves.
C5_FirstPlyFailureExcluded ==
    \A t \in Threads :
        AnalyzeReturned(t) =>
            \A r \in Ranks : FirstPlyFails(t, r) => r \notin RanksIn(best_moves[t])

\* C5 amended: a rank whose latest PV fails conversion on its first ply has
\* an entry in best_moves, with the engine-notation first move as its
\* move_san and an empty line and full_line.
C5_FirstPlyFailureKept ==
    \A t \in Threads :
        AnalyzeReturned(t) =>
            \A r \in Ranks :
                FirstPlyFails(t, r) =>
                    /\ r \in RanksIn(best_moves[t])
                    /\ EntryOf(best_moves[t], r).move = Acc(t, r).pv[1][1]
                    /\ EntryOf(best_moves[t], r).move_san = Acc(t, r).pv[1][1]
                    /\ EntryOf(best_moves[t], r).full_line = <<>>
                    /\ EntryOf(best_moves[t], r).line = <<>>

C5_Witness ==
    \E t \in Threads :
        /\ AnalyzeReturned(t)
        /\ FirstPlyFails(t, 1)
        /\ 1 \in RanksIn(best_moves[t])
        /\ EntryOf(best_moves[t], 1).move_san = Uci(3)

\* C6: best_moves is strictly ascending by rank, and the entry with rank r
\* is built from the accumulator of the engine's rank r (a rank that received
\* a PV, with that accumulator's move and line), whatever the order the ranks
\* arrived in; a dropped rank leaves a gap.
C6_AscendingEngineRanks ==
    \A t \in Threads :
        LET bm == best_moves[t]
        IN /\ \A i, j \in 1..Len(bm) : i < j => bm[i].rank < bm[j].rank
           /\ \A i \in 1..Len(bm) :
                 /\ <<bm[i].rank, "pv">> \in received[t]
                 /\ bm[i].move = Acc(t, bm[i].rank).pv[1][1]
                 /\ bm[i].full_line = Acc(t, bm[i].rank).pv_san[1]

\* rank 2 arrived before rank 1 and both are in the result, in rank order
C6_Witness ==
    \E t \in Threads :
        /\ AnalyzeReturned(t)
        /\ info[t].multipv = Some(1)
        /\ <<2, "pv">> \in received[t]
        /\ Len(best_moves[t]) = 2
        /\ best_moves[t][1].rank = 1
        /\ best_moves[t][2].rank = 2

\* rank 1 was dropped: the only entry has rank 2
C6_GapWitness ==
    \E t \in Threads :
        /\ AnalyzeReturned(t)
        /\ Len(best_moves[t]) = 1
        /\ best_moves[t][1].rank = 2

\* C7 as stated: within a run, no update lowers the depth recorded for a
\* rank.
C7_DepthNeverDecreases ==
    [][\A t \in Threads :
         UpdateStep(t) =>
            \A r \in 1..Len(analysis_results[t]) :
                Acc(t, r).depth # None =>
                    /\ AccOf(analysis_results'[t], r).depth # None
                    /\ AccOf(analysis_results'[t], r).depth[1] >= Acc(t, r).depth[1]]_vars

\* C7 amended: a depth-carrying update sets the recorded depth of its rank to
\* the depth it carries, so the recorded depth goes down exactly when the
\* update's depth is below the recorded one.
C7_DepthIsLatest ==
    [][\A t \in Threads :
         (UpdateStep(t) /\ info'[t].multipv # None /\ info'[t].depth # None) =>
            LET r == info'[t].multipv[1]
                d == info'[t].depth[1]
            IN /\ AccOf(analysis_results'[t], r).depth = Some(d)
               /\ Acc(t, r).depth # None =>
                     (AccOf(analysis_results'[t], r).depth[1] < Acc(t, r).depth[1]
                        <=> d < Acc(t, r).depth[1])]_vars

\* the depth recorded for rank 1 went from 8 to 5
C7_Witness ==
    \E t \in Threads :
        /\ pc[t] = "stream"
        /\ nupdates[t] = 2
        /\ <<1, "depth">> \in received[t]
        /\ info[t].multipv = Some(1)
        /\ info[t].depth = Some(5)
        /\ info[t].score = None
        /\ Acc(t, 1).score # None
        /\ Acc(t, 1).depth = Some(5)

\* C8: an analyze call whose FEN fails validation ends by raising ValueError
\* with the validation message; the call starts no engine, is handed no
\* engine handle and runs no analysis.
C8_InvalidFenRejectedFirst ==
    \A t \in Threads :
        (req[t].op = "analyze" /\ req[t].fen.shape # "legal") =>
            /\ pc[t] \in {"validate", "done", "idle"}
            /\ pc[t] # "validate" =>
                  ret[t] = Raised("ValueError",
                                  IF req[t].fen.shape = "malformed"
                                  THEN MsgInvalidFen ELSE MsgInvalidPosition)
            /\ handle[t] = NoHandle
            /\ nupdates[t] = 0
            /\ started = {}

C8_Witness ==
    \E t \in Threads :
        /\ req[t].op = "analyze"
        /\ req[t].fen.shape = "illegal"
        /\ pc[t] = "done"
        /\ ret[t] = Raised("ValueError", MsgInvalidPosition)
        /\ engine_path
        /\ started = {}

\* C9: at most one analysis is in progress on an engine handle at any time.
C9_OneAnalysisPerHandle ==
    \A t1, t2 \in Threads :
        (t1 # t2 /\ pc[t1] = "stream" /\ pc[t2] = "stream") => handle[t1] # handle[t2]

\* C10: the engine process is started at most once, and every call that got
\* a handle got the same one.
C10_EngineStartedOnce ==
    /\ Cardinality(started) <= 1
    /\ \A t1, t2 \in Threads :
          (handle[t1] # NoHandle /\ handle[t2] # NoHandle) => handle[t1] = handle[t2]

\* C11: every engine handle that _get_engine has returned to a call was
\* configured with the Hash and Threads hints.
C11_ReturnedHandleConfigured ==
    \A t \in Threads : handle[t] # NoHandle => handle[t] \in configured

\* C13: a mate score with a positive count N is formatted as "Mate in N" with
\* the value +10000, one with a negative count N as "Mated in |N|" with the
\* value -10000, whatever the size of N.
C13_MateFormatting ==
    (fmt.stage = "formatted" /\ fmt.score.tag = "mate" /\ fmt.score.v # 0) =>
        IF fmt.score.v > 0
        THEN /\ fmt.raw = Some(StrMateInSp \o IntToStr(fmt.score.v))
             /\ fmt.raw_value = Some(10000)
        ELSE /\ fmt.raw = Some(StrMatedInSp \o IntToStr(-fmt.score.v))
             /\ fmt.raw_value = Some(-10000)

\* mate score -3 is "Mated in 3"
C13_Witness ==
    /\ fmt.stage = "formatted"
    /\ fmt.score = Mate(-3)
    /\ fmt.raw = Some(StrMatedInSp \o <<"3">>)
    /\ fmt.raw_value = Some(-MateScore)

\* C14: a centipawn score C is formatted as the sign ('+' for C >= 0, '-'
\* for C < 0), the pawns |C| div 100, a point and the two digits of
\* |C| mod 100, and its comparable value is C; 125 is "+1.25", -50 is
\* "-0.50" and 0 is "+0.00".
C14_CentipawnFormatting ==
    (fmt.stage = "formatted" /\ fmt.score.tag = "cp") =>
        LET c == fmt.score.v
            a == IF c < 0 THEN -c ELSE c
        IN /\ fmt.raw = Some(<<IF c >= 0 THEN "+" ELSE "-">>
                             \o IntToStr(a \div 100) \o <<".">>
                             \o <<DigitChar((a \div 10) % 10), DigitChar(a % 10)>>)
           /\ fmt.raw_value = Some(c)
           /\ c = 125 => fmt.raw = Some(<<"+", "1", ".", "2", "5">>)
           /\ c = -50 => fmt.raw = Some(<<"-", "0", ".", "5", "0">>)
           /\ c = 0 => fmt.raw = Some(<<"+", "0", ".", "0", "0">>)

C14_Witness ==
    /\ fmt.stage = "formatted"
    /\ fmt.score = Cp(125)
    /\ fmt.raw = Some(<<"+", "1", ".", "2", "5">>)
    /\ fmt.raw_value = Some(125)

\* C19: check_engine never raises; it returns True exactly when _get_engine
\* handed it a handle, and False when there is no engine path or when starting
\* or configuring the engine raised; the health endpoint answers "healthy"
\* with engine_available true in the first case and "degraded" with
\* engine_available false in the second.
C19_DegradedHealth ==
    \A t \in Threads :
        req[t].op = "check_engine" =>
            /\ ret[t].kind # "raise"
            /\ pc[t] = "done" => ret[t] = Returned(handle[t] # NoHandle)
            /\ (pc[t] = "done" /\ ~engine_path) => ret[t] = Returned(FALSE)
            /\ (pc[t] = "idle" /\ handle[t] # NoHandle) =>
                  resp[t] = [code |-> 200, body |-> "healthy", engine_available |-> TRUE]
            /\ (pc[t] = "idle" /\ handle[t] = NoHandle) =>
                  resp[t] = [code |-> 200, body |-> "degraded", engine_available |-> FALSE]

\* the engine was started and its configuration raised: degraded
C19_Witness ==
    \E t \in Threads :
        /\ req[t].op = "check_engine"
        /\ pc[t] = "idle"
        /\ started # {}
        /\ configured = {}
        /\ ret[t] = Returned(FALSE)
        /\ resp[t].body = "degraded"
        /\ ~resp[t].engine_available

C19_NoPathWitness ==
    \E t \in Threads :
        /\ req[t].op = "check_engine"
        /\ pc[t] = "idle"
        /\ ~engine_path
        /\ resp[t].body = "degraded"

\* the number of pieces of a side with the given counts, its king included
SideTotal(k) == k.pawn + k.knight + k.bishop + k.rook + k.queen + 1

\* C17: the phase depends on the total number of pieces, kings and pawns
\* included: more than 24 is "opening", 13 to 24 "middlegame", 12 or fewer
\* "endgame"; so 26 is opening, 20 and 24 are middlegame, 12 and 10 endgame.
C17_PhaseByPieceCount ==
    ctx.stage = "extracted" =>
        LET n == SideTotal(ctx.white) + SideTotal(ctx.black)
        IN /\ n > 24 => ctx.phase = "opening"
           /\ (13 <= n /\ n <= 24) => ctx.phase = "middlegame"
           /\ n <= 12 => ctx.phase = "endgame"
           /\ n = 26 => ctx.phase = "opening"
           /\ n \in {20, 24} => ctx.phase = "middlegame"
           /\ n \in {10, 12} => ctx.phase = "endgame"

\* 24 pieces: middlegame
C17_Witness ==
    /\ ctx.stage = "extracted"
    /\ SideTotal(ctx.white) + SideTotal(ctx.black) = 24
    /\ ctx.phase = "middlegame"

C17_EndgameWitness ==
    /\ ctx.stage = "extracted"
    /\ SideTotal(ctx.white) + SideTotal(ctx.black) = 12
    /\ ctx.phase = "endgame"

MaterialOf(k) == k.pawn + 3 * k.knight + 3 * k.bishop + 5 * k.rook + 9 * k.queen

\* the material part of C18: each side's material is the sum of its pieces'
\* values and the balance is White's minus Black's (0 at the start)
MaterialSums ==
    /\ ctx.material_balance.white = MaterialOf(ctx.white)
    /\ ctx.material_balance.black = MaterialOf(ctx.black)
    /\ ctx.material_balance.balance = MaterialOf(ctx.white) - MaterialOf(ctx.black)
    /\ (ctx.white = StartCounts /\ ctx.black = StartCounts) =>
          ctx.material_balance.balance = 0

\* C18 as stated: the material sums, and at the start each side's piece
\* counts are exactly pawns 8, knights 2, bishops 2, rooks 2, queens 1.
C18_StartCountsFivePieceTypes ==
    ctx.stage = "extracted" =>
        /\ MaterialSums
        /\ (ctx.white = StartCounts /\ ctx.black = StartCounts) =>
              \A c \in Colors :
                  ctx.material_balance.piece_counts[c] =
                      [pawns |-> 8, knights |-> 2, bishops |-> 2, rooks |-> 2, queens |-> 1]

\* C18 amended: the material sums, and at the start each side's piece counts
\* are pawns 8, knights 2, bishops 2, rooks 2, queens 1 and kings 1.
C18_StartCountsWithKings ==
    ctx.stage = "extracted" =>
        /\ MaterialSums
        /\ (ctx.white = StartCounts /\ ctx.black = StartCounts) =>
              \A c \in Colors :
                  ctx.material_balance.piece_counts[c] =
                      [pawns |-> 8, knights |-> 2, bishops |-> 2, rooks |-> 2,
                       queens |-> 1, kings |-> 1]

C18_Witness ==
    /\ ctx.stage = "extracted"
    /\ ctx.white = StartCounts
    /\ ctx.black = StartCounts
    /\ ctx.material_balance.white = 39
    /\ ctx.material_balance.balance = 0
    /\ DOMAIN ctx.material_balance.piece_counts[White]
          = {"pawns", "knights", "bishops", "rooks", "queens", "kings"}

\* ------------------------------------------------------------------ C15
LineKeys(lines) == {lines[i].key : i \in 1..Len(lines)}

BodyKeys ==
    {"", "analysis_title", "strategic_title", "opening_advice", "middlegame_advice",
     "endgame_advice", "can_castle", "api_tip", "best_move", "second_best",
     "third_best", "#rank", "why_sequence", "after_move", "game_continues",
     "further_moves"} \cup BandKeys

\* C15: when the context says checkmate (resp. stalemate) the template
\* renderer's text ends with the checkmate (resp. stalemate) line: no move
\* analysis, no strategic considerations and no API tip are in it, whatever
\* the best_moves list is.
C15_TerminalPositionShortCircuit ==
    (expl.stage = "input" /\ expl.template # None) =>
        LET lines == expl.template[1]
            terminal == IF expl.context.is_checkmate THEN "checkmate" ELSE "stalemate"
        IN (expl.context.is_checkmate \/ expl.context.is_stalemate) =>
              /\ lines[Len(lines)].key = terminal
              /\ LineKeys(lines) \cap BodyKeys = {}

C15_Witness ==
    /\ expl.stage = "input"
    /\ expl.template # None
    /\ expl.context.is_checkmate
    /\ Len(expl.best_moves) = 4
    /\ expl.template[1][Len(expl.template[1])].key = "checkmate"

C15_StalemateWitness ==
    /\ expl.stage = "input"
    /\ expl.template # None
    /\ expl.context.is_stalemate
    /\ Len(expl.best_moves) > 0
    /\ expl.template[1][Len(expl.template[1])].key = "stalemate"

\* ------------------------------------------------------------------ C16
\* the band the claim names for a display score and its value
ClaimedBand(score, v) ==
    IF StartsWith(score, StrMateIn) THEN "forced_mate"
    ELSE IF StartsWith(score, StrMatedIn) THEN "getting_mated"
    ELSE IF v > 300 THEN "decisive_advantage"
    ELSE IF 100 < v /\ v <= 300 THEN "clear_advantage"
    ELSE IF 30 < v /\ v <= 100 THEN "slight_edge"
    ELSE IF v < -300 THEN "losing"
    ELSE IF -300 <= v /\ v < -100 THEN "worse"
    ELSE IF -100 <= v /\ v < -30 THEN "opponent_edge"
    ELSE "equal"

BandLinesOf(lines, rank) ==
    {i \in 1..Len(lines) : lines[i].rank = rank /\ lines[i].key \in BandKeys}

C16_MateWitness ==
    /\ expl.stage = "input"
    /\ expl.template # None
    /\ ~expl.context.is_checkmate
    /\ ~expl.context.is_stalemate
    /\ Len(expl.best_moves) = 1
    /\ expl.best_moves[1].score_value = -MateScore
    /\ \E i \in 1..Len(expl.template[1]) : expl.template[1][i].key = "getting_mated"

\* ------------------------------------------------------------------ C12
\* C12: when the language-model call fails, the explanation step returns
\* normally and its text is the template renderer's text for the same
\* inputs followed by a blank line and the note about the failure.
C12_LlmFailureFallsBackToTemplate ==
    (/\ expl.stage = "input"
     /\ expl.explanation # None
     /\ expl.llm = "raise") =>
        /\ expl.explanation[1].kind = "return"
        /\ expl.template # None =>
              expl.explanation[1].text =
                  expl.template[1] \o <<Line("", expl.lang), Line("llm_note", expl.lang)>>

C12_Witness ==
    /\ expl.stage = "input"
    /\ expl.explanation # None
    /\ expl.template # None
    /\ expl.llm = "raise"
    /\ expl.explanation[1].kind = "return"
    /\ Len(expl.explanation[1].text) = Len(expl.template[1]) + 2

\* ------------------------------------------------------------------ C20
\* the reply holds a position: the call gave a text without the marker, and
\* some piece placement in the text parses
ReplyUsable(reply) ==
    /\ reply.kind = "text"
    /\ ~reply.cannot
    /\ \E i \in 1..Len(reply.segs) : reply.segs[i].placement \in {"illegal", "legal"}

\* C20: when the collaborator's reply holds no usable position (marker
\* CANNOT_RECOGNIZE, failed call, or no piece placement that parses),
\* recognize returns None; the None survives the unlink, and the handler
\* then answers 400 "could not recognize" without fetching an engine or
\* handling any update.
C20_NoUsablePositionNoAnalysis ==
    [][\A t \in Threads :
          /\ (pc[t] = "vision_reply" /\ pc'[t] # pc[t] /\ ~ReplyUsable(vision[t]))
                => image_fen'[t] = None
          /\ (pc[t] = "unlink" /\ pc'[t] # pc[t]) => image_fen'[t] = image_fen[t]
          /\ (pc[t] = "recognized" /\ pc'[t] # pc[t] /\ image_fen[t] = None)
                => /\ resp'[t] = CouldNotRecognizeResponse(req[t].op)
                   /\ pc'[t] = "idle"
                   /\ handle'[t] = NoHandle
                   /\ nupdates'[t] = 0
                   /\ started' = started]_vars

C20_Witness ==
    \E t \in Threads :
        /\ pc[t] = "idle"
        /\ req[t].op = "analyze_image"
        /\ resp[t] = CouldNotRecognizeResponse("analyze_image")
        /\ image_fen[t] = None
        /\ started = {}

C20_UnparseableReplyWitness ==
    \E t \in Threads :
        /\ pc[t] = "vision_reply"
        /\ vision[t].kind = "text"
        /\ ~vision[t].cannot
        /\ Len(vision[t].segs) = 2
        /\ vision[t].segs[1].placement = "badsum"
        /\ vision[t].segs[1].turn = "b"
        /\ ~ReplyUsable(vision[t])

\* ------------------------------------------------------------------ C24
\* C24: the language model is called exactly when a client is configured
\* and best_moves is non-empty; without a client, or with an empty
\* best_moves, the explanation is returned normally, no call is made and
\* the text is exactly the template renderer's text for the same inputs.
C24_TemplateWithoutLanguageModel ==
    (expl.stage = "input" /\ expl.explanation # None) =>
        LET e == expl.explanation[1]
            eligible == expl.openai_client /\ Len(expl.best_moves) > 0
        IN /\ e.llm_called <=> eligible
           /\ (expl.llm = "not_called") <=> ~eligible
           /\ ~eligible =>
                 /\ e.kind = "return"
                 /\ expl.template # None => e.text = expl.template[1]

C24_Witness ==
    /\ expl.stage = "input"
    /\ expl.explanation # None
    /\ expl.template # None
    /\ ~expl.openai_client
    /\ Len(expl.best_moves) > 0
    /\ ~expl.explanation[1].llm_called
    /\ expl.explanation[1].text = expl.template[1]

C24_EmptyBestMovesWitness ==
    /\ expl.stage = "input"
    /\ expl.explanation # None
    /\ expl.template # None
    /\ expl.openai_client
    /\ Len(expl.best_moves) = 0
    /\ ~expl.explanation[1].llm_called
    /\ expl.explanation[1].text = expl.template[1]

\* ------------------------------------------------------------------ C25
\* the formatter's rendering of a centipawn value: sign, pawns, point, two
\* digits
SignedTwoDecimals(c) ==
    <<IF c >= 0 THEN "+" ELSE "-">>
    \o IntToStr(Abs(c) \div 100) \o <<".">>
    \o <<DigitChar((Abs(c) \div 10) % 10), DigitChar(Abs(c) % 10)>>

\* C25: for a centipawn score and either side to move, the display string
\* of the entry is the formatter's rendering of the entry's side-to-move-
\* relative value; an evaluation of 0 is shown as "+0.00" for both sides.
C25_DisplayRendersDisplayValue ==
    (fmt.stage = "formatted" /\ fmt.score.tag = "cp") =>
        \A c \in Colors :
            fmt.shown[c] # None =>
                fmt.shown[c][1].score = SignedTwoDecimals(fmt.shown[c][1].score_value)

\* ------------------------------------------------------------------ C27
\* C27: an update without a rank index changes nothing in the list of
\* accumulators - no accumulator is added and none is changed - whatever
\* score, PV or depth the update carries.
C27_UnrankedUpdateIgnored ==
    [][\A t \in Threads :
         (UpdateStep(t) /\ info'[t].multipv = None) =>
            /\ Len(analysis_results'[t]) = Len(analysis_results[t])
            /\ \A r \in 1..Len(analysis_results[t]) :
                  /\ AccOf(analysis_results'[t], r).score = Acc(t, r).score
                  /\ AccOf(analysis_results'[t], r).score_value = Acc(t, r).score_value
                  /\ AccOf(analysis_results'[t], r).pv = Acc(t, r).pv
                  /\ AccOf(analysis_results'[t], r).pv_san = Acc(t, r).pv_san
                  /\ AccOf(analysis_results'[t], r).depth = Acc(t, r).depth]_vars

\* rank 1 got a score and a depth; then an update without a rank carried
\* another score, a PV and another depth: rank 1 is as it was
C27_Witness ==
    \E t \in Threads :
        /\ pc[t] = "stream"
        /\ nupdates[t] = 2
        /\ info[t] = [multipv |-> None, score |-> Some(Mate(-1)), pv |-> Some(<<1, 2>>),
                      depth |-> Some(8)]
        /\ board[t].turn = White
        /\ Len(analysis_results[t]) = 1
        /\ Acc(t, 1).score = Some(Str050)
        /\ Acc(t, 1).depth = Some(5)
        /\ Acc(t, 1).pv = None

\* only an update without a rank was handled: there is no accumulator
C27_NoAccumulatorWitness ==
    \E t \in Threads :
        /\ pc[t] = "stream"
        /\ nupdates[t] = 1
        /\ info[t].multipv = None
        /\ info[t].score # None
        /\ info[t].pv # None
        /\ analysis_results[t] = <<>>

\* ------------------------------------------------------------------ C28
\* C28: once an image request has completed (analyze-from-image or
\* recognize), no temporary file created by it is on disk, whatever
\* recognition did and whether or not writing the bytes succeeded.
C28_NoTempFileAfterRequest ==
    \A t \in Threads :
        (pc[t] = "idle" /\ calls[t] > 0 /\ req[t].op \in ImageOps) =>
            \A f \in files : f[1] # t

\* ------------------------------------------------------------------ C23
\* C23: during an analysis run the board stays the position of the input
\* FEN - no update changes it, whatever PV it carries - and the human-
\* notation PV an update stores is converted from that position.
C23_BoardNeverMutated ==
    [][\A t \in Threads :
         /\ (pc[t] \in {"get_engine", "popen", "configure", "return_engine", "analysis",
                        "stream", "finalize"} /\ req[t].op = "analyze")
               => board'[t] = BoardOf(req[t].fen)
         /\ (UpdateStep(t) /\ info'[t].multipv # None /\ info'[t].pv # None) =>
               LET start == BoardOf(req[t].fen)
                   pv == Take(info'[t].pv[1], PvStoreLimit)
                   san == AccOf(analysis_results'[t], info'[t].multipv[1]).pv_san
               IN /\ san # None
                  /\ Legal(start, pv[1]) =>
                        (Len(san[1]) > 0 /\ san[1][1] = San(start, pv[1]))
                  /\ ~Legal(start, pv[1]) => san[1] = <<>>]_vars

\* two updates with the PV 1 2 (a legal ply, then an illegal one): the board
\* is the input position and both conversions start from it
C23_Witness ==
    \E t \in Threads :
        /\ pc[t] = "stream"
        /\ nupdates[t] = 2
        /\ info[t].multipv = Some(2)
        /\ info[t].pv = Some(<<1, 2>>)
        /\ Acc(t, 1).pv_san = Some(<<San(BoardOf(req[t].fen), 1)>>)
        /\ Acc(t, 2).pv_san = Some(<<San(BoardOf(req[t].fen), 1)>>)
        /\ board[t] = BoardOf(req[t].fen)

\* ------------------------------------------------------------------ C26
Str100Plus == <<"+", "1", "0", "0", ".", "0", "0">>

Str100Minus == <<"-", "1", "0", "0", ".", "0", "0">>

\* C26 as stated: for every entry of best_moves, the string starts with
\* "Mate in" exactly when the White-relative value is +10000 and with
\* "Mated in" exactly when it is -10000.
C26_MateStringIffWhiteValue ==
    \A t \in Threads :
        AnalyzeReturned(t) =>
            \A k \in 1..Len(best_moves[t]) :
                LET e == best_moves[t][k]
                IN /\ StartsWith(e.score, StrMateIn) <=> e.raw_score_value = MateScore
                   /\ StartsWith(e.score, StrMatedIn) <=> e.raw_score_value = -MateScore

\* C26 amended: string and value of a rank are written by the same update
\* and so are both PVs (an update carrying the field writes both, one not
\* carrying it leaves both); in every entry of best_moves a string that
\* starts with "Mate in" (resp. "Mated in") goes with the side-to-move-
\* relative value +10000 (resp. -10000), the White-relative value being the
\* same with White to move and the negation with Black to move; and the
\* side-to-move-relative value +10000 (resp. -10000) goes with such a string
\* or with "+100.00" (resp. "-100.00"), the centipawn score of that size.
C26_PairsFromSameUpdate ==
    [][\A t \in Threads :
         /\ (UpdateStep(t) /\ info'[t].multipv # None) =>
               LET inf == info'[t]
                   old == Acc(t, inf.multipv[1])
                   new == AccOf(analysis_results'[t], inf.multipv[1])
                   w == IF inf.score # None
                        THEN PovWhite(inf.score[1], board[t].turn)
                        ELSE Cp(0)
               IN /\ inf.score # None =>
                        /\ new.score = Some(FormatScore(w))
                        /\ new.score_value = Some(ScoreValue(w))
                  /\ inf.score = None =>
                        (new.score = old.score /\ new.score_value = old.score_value)
                  /\ inf.pv # None => (new.pv # None /\ new.pv_san # None)
                  /\ inf.pv = None => (new.pv = old.pv /\ new.pv_san = old.pv_san)
                  /\ (new.score = None) <=> (new.score_value = None)
                  /\ (new.pv = None) <=> (new.pv_san = None)
         /\ (pc[t] = "finalize" /\ pc'[t] = "done") =>
               \A k \in 1..Len(best_moves'[t]) :
                   LET e == best_moves'[t][k]
                       white == board[t].turn = White
                   IN /\ e.raw_score_value = IF white THEN e.score_value ELSE -e.score_value
                      /\ StartsWith(e.score, StrMateIn) => e.score_value = MateScore
                      /\ StartsWith(e.score, StrMatedIn) => e.score_value = -MateScore
                      /\ e.score_value = MateScore =>
                            (StartsWith(e.score, StrMateIn) \/ e.score = Str100Plus)
                      /\ e.score_value = -MateScore =>
                            (StartsWith(e.score, StrMatedIn) \/ e.score = Str100Minus)]_vars

\* Black to move and the engine reports mate in 2 for Black: the entry says
\* "Mate in 2" with value +10000 while the White-relative value is -10000
C26_Witness ==
    \E t \in Threads :
        /\ AnalyzeReturned(t)
        /\ board[t].turn = Black
        /\ nupdates[t] = 2
        /\ Len(best_moves[t]) = 1
        /\ best_moves[t][1].score = StrMateInSp \o <<"2">>
        /\ best_moves[t][1].score_value = MateScore
        /\ best_moves[t][1].raw_score_value = -MateScore

\* the second score-carrying update of rank 1 replaced a mate by +0.50:
\* string and value are both the second update's
C26_ReplacedWitness ==
    \E t \in Threads :
        /\ pc[t] = "stream"
        /\ board[t].turn = White
        /\ nupdates[t] = 2
        /\ <<1, "score">> \in received[t]
        /\ info[t].multipv = Some(1)
        /\ info[t].score = Some(Cp(50))
        /\ Len(analysis_results[t]) = 1
        /\ Acc(t, 1).score = Some(Str050)
        /\ Acc(t, 1).score_value = Some(50)

\* ------------------------------------------------------------------ C21
RECURSIVE SumFirst(_, _)
SumFirst(pv, n) == IF n = 0 THEN 0 ELSE pv[n] + SumFirst(pv, n - 1)

\* the position in which ply i of pv is played from start
BoardBefore(start, pv, i) ==
    [turn |-> IF (i - 1) % 2 = 0 THEN start.turn ELSE Other(start.turn),
     pos |-> (start.pos + SumFirst(pv, i - 1)) % 4]

Min(a, b) == IF a < b THEN a ELSE b

\* C21: of a received PV the first min(len, 10) plies are stored in engine
\* notation; the human-notation sequence is the conversion, ply by ply in
\* the position reached, of the longest prefix of the stored plies that
\* converts, the update neither raising nor ending the stream; and in every
\* entry of best_moves len(full_line) <= len(stored PV) <= 10 and line joins
\* the first min(5, len(full_line)) entries of full_line.
C21_StoredPvAndConvertedPrefix ==
    [][\A t \in Threads :
         /\ (UpdateStep(t) /\ info'[t].multipv # None /\ info'[t].pv # None) =>
               LET pv == info'[t].pv[1]
                   n == Min(Len(pv), 10)
                   new == AccOf(analysis_results'[t], info'[t].multipv[1])
                   uci == new.pv[1]
                   san == new.pv_san[1]
               IN /\ pc'[t] = "stream"
                  /\ ret'[t] = NoRet
                  /\ Len(uci) = n
                  /\ \A i \in 1..n : uci[i] = Uci(pv[i])
                  /\ Len(san) <= n
                  /\ \A i \in 1..Len(san) :
                        /\ Legal(BoardBefore(board[t], pv, i), pv[i])
                        /\ san[i] = San(BoardBefore(board[t], pv, i), pv[i])
                  /\ Len(san) < n =>
                        ~Legal(BoardBefore(board[t], pv, Len(san) + 1), pv[Len(san) + 1])
         /\ (pc[t] = "finalize" /\ pc'[t] = "done") =>
               \A k \in 1..Len(best_moves'[t]) :
                   LET e == best_moves'[t][k]
                       acc == Acc(t, e.rank)
                   IN /\ e.full_line = acc.pv_san[1]
                      /\ Len(e.full_line) <= Len(acc.pv[1])
                      /\ Len(acc.pv[1]) <= 10
                      /\ e.line = JoinSp(SubSeq(e.full_line, 1, Min(5, Len(e.full_line))))]_vars

\* an 11-ply PV: 10 plies stored and converted, 5 in the preview
C21_Witness ==
    \E t \in Threads :
        /\ AnalyzeReturned(t)
        /\ info[t].pv = Some(LongPv)
        /\ info[t].multipv = Some(1)
        /\ Len(Acc(t, 1).pv[1]) = 10
        /\ Len(best_moves[t]) = 1
        /\ Len(best_moves[t][1].full_line) = 10
        /\ best_moves[t][1].line = JoinSp(SubSeq(best_moves[t][1].full_line, 1, 5))

\* the PV 1 2 1 stops converting at its second ply: three plies stored, one
\* converted, though the third ply is legal in the position reached
C21_StopsWitness ==
    \E t \in Threads :
        /\ pc[t] = "stream"
        /\ info[t].pv = Some(<<1, 2, 1>>)
        /\ info[t].multipv = Some(1)
        /\ Len(Acc(t, 1).pv[1]) = 3
        /\ Len(Acc(t, 1).pv_san[1]) = 1
        /\ Legal(Push(board[t], 1), 1)

C22_DefaultWitness ==
    \E t \in Threads :
        /\ AnalyzeReturned(t)
        /\ req[t].depth = None
        /\ settings.default_depth = 18
        /\ search[t] = Some(18)
        /\ ret[t].value[1].analysis_depth = 18
====
